---- MODULE Spec2Model ----
(***************************************************************************)
(* A model of the scheduling engine of paas: the problem data model, the   *)
(* graph-repair middlewares (CycleRemover, DependencyPruner), the          *)
(* ContinuousIndexer adapter, the Pipeline time-budget allocator and the   *)
(* Tabu Search / Hill Climbing decode-and-search loops.                    *)
(***************************************************************************)
EXTENDS Integers, Sequences, FiniteSets, TLC

(***************************************************************************)
(* Bounds of the model.                                                    *)
(***************************************************************************)
\* tasks of a built instance have the ids 1..NumTasks (parse_input numbers from 1)
NumTasks == 2
\* total number of entries in all predecessors/successors lists of an instance
MaxRefs == 3

\* number of task ids the instances given to ContinuousIndexer are drawn from
NumIndexed == 3
\* number of assignments in the schedule a wrapped stage returns
MaxAssign == 2
\* stages of a Pipeline (middlewares and solver) and their largest time_factor
NumStages == 3
MaxFactor == 2
\* passes of the while-loop of a tabu search before its budget is used up
MaxIter == 4
\* the same for a run of TabuSearchSolver that lasts past a compaction
MaxRun == 102

VARIABLES
    problem,    \* the ProblemInstance under construction / handed to the pipeline
    pc,         \* "build" while the instance is being assembled, then "run" or "piped"
    prev,       \* the ProblemInstance the last middleware received
    cur,        \* the ProblemInstance the last middleware returned
    applied,    \* the middlewares applied so far, in order
    ident,      \* which objects `prev` and `cur` are: 0 the instance given to the
                \* first stage, k the one the k-th applied stage built
    indexed,    \* the ProblemInstance ContinuousIndexer.run hands to the wrapped stage
    inner,      \* the assignments the wrapped stage returned
    schedule,   \* the outcome of the outermost stage: [raised, assignments]
    factors,    \* time_factor of every stage of the Pipeline, the solver's last
    call,       \* Pipeline.total_budget and the time_limit given to Pipeline.run
    allotted,   \* the budget of each wrapper Pipeline.run built
    passed,     \* the time_limit each wrapper's run was called with, outermost first
    received,   \* the time_limit each stage's run was called with
    kinds,      \* the class of every middleware of the Pipeline: MapProblem or MapResult
    flow,       \* the problems handed down the stages, the calls made so far, the
                \* schedule on its way back and the stage it is returned to next
    stage,      \* the solver or refinement stage that ran last
    solver,     \* the arrays _preprocess stored on the stage object
    seed,       \* the Schedule a refinement stage was given
    attempts,   \* the team changes a local search tried, in order
    current_solution, \* the solution the search stands on (current)
    best_solution,    \* the incumbent (best); its fitness is best_score
    scored,     \* the assignment list decoded when best was scored; in a hill
                \* climbing, current_assignments (the list of the first _evaluate)
    tabu_list,  \* move -> the iteration its ban ends
    iteration,  \* the loop counter of the running stage
    tabu_tenure, \* self.tabu_tenure of the stage that runs a tabu search
    scan,       \* the last pass of a tabu search: what it started with, the move it chose,
                \* and the moves the passes chose so far
    time_budget,\* the TimeBudget of the running stage
    result,     \* the ValidationResult of the last validate_schedule call
    graded      \* the outcome of the last grade_schedule call: [raised, value]

repairVars == <<problem, pc, prev, cur, applied, ident>>
indexVars == <<indexed, inner, schedule>>
budgetVars == <<factors, call, allotted, passed, received, kinds, flow>>
searchVars == <<stage, solver, seed, attempts, current_solution, best_solution, scored, tabu_list, iteration,
                tabu_tenure, scan, time_budget>>
checkVars == <<result, graded>>
vars == <<repairVars, indexVars, budgetVars, searchVars, checkVars>>

(***************************************************************************)
(* Helpers on Python lists, sets and dicts.                                *)
(***************************************************************************)
Range(s) == {s[i] : i \in 1..Len(s)}

Min2(a, b) == IF a < b THEN a ELSE b
Max2(a, b) == IF a > b THEN a ELSE b

\* [x for x in s if x in S]
Keep(s, S) == SelectSeq(s, LAMBDA x : x \in S)
\* [x for x in s if x not in S]
Drop(s, S) == SelectSeq(s, LAMBDA x : x \notin S)

RECURSIVE SortedSeq(_)
\* sorted(S): the elements of a finite set of integers in ascending order
SortedSeq(S) ==
    IF S = {} THEN <<>>
    ELSE LET m == CHOOSE x \in S : \A y \in S : x <= y
         IN <<m>> \o SortedSeq(S \ {m})

EmptyDict == [x \in {} |-> 0]

(***************************************************************************)
(* The data model (models.py).                                             *)
(***************************************************************************)
Task(id, duration, predecessors, successors, compatible_teams) ==
    [id |-> id, duration |-> duration, predecessors |-> predecessors,
     successors |-> successors, compatible_teams |-> compatible_teams]

Team(id, available_from) == [id |-> id, available_from |-> available_from]

ProblemInstance(num_tasks, num_teams, tasks, teams) ==
    [num_tasks |-> num_tasks, num_teams |-> num_teams, tasks |-> tasks, teams |-> teams]

Keys(d) == DOMAIN d

(***************************************************************************)
(* CycleRemover (middleware/cycle_remover.py).                             *)
(***************************************************************************)
\* a loop that pops one node only
PopSccTopOnly(at, st, current_scc) ==
    [st EXCEPT !.stack = SubSeq(@, 1, Len(@) - 1),
               !.on_stack = @ \ {st.stack[Len(st.stack)]},
               !.sccs = Append(@, <<st.stack[Len(st.stack)]>>)]

RECURSIVE PopScc(_, _, _)
\* the `while stack: node = stack.pop() ...` loop of dfs: pops the component of `at`
PopScc(at, st, current_scc) ==
    IF st.stack = <<>> THEN [st EXCEPT !.sccs = Append(@, current_scc)]
    ELSE LET node == st.stack[Len(st.stack)]
             st1 == [st EXCEPT !.stack = SubSeq(@, 1, Len(@) - 1),
                               !.on_stack = @ \ {node}]
             scc1 == Append(current_scc, node)
         IN IF node = at THEN [st1 EXCEPT !.sccs = Append(@, scc1)]
            ELSE PopScc(at, st1, scc1)

RECURSIVE dfs(_, _, _)
RECURSIVE DfsLoop(_, _, _, _)
\* the `for to in tasks[at].successors` loop of dfs, from position i on
DfsLoop(tasks, at, i, st) ==
    IF i > Len(tasks[at].successors) THEN st
    ELSE LET to == tasks[at].successors[i]
         IN IF to \notin Keys(tasks) THEN DfsLoop(tasks, at, i + 1, st)
            ELSE IF to \notin st.visited
                 THEN LET st1 == dfs(tasks, to, st)
                          st2 == [st1 EXCEPT !.low[at] = Min2(@, st1.low[to])]
                      IN DfsLoop(tasks, at, i + 1, st2)
            ELSE IF to \in st.on_stack
                 THEN DfsLoop(tasks, at, i + 1,
                              [st EXCEPT !.low[at] = Min2(@, st.ids[to])])
            ELSE DfsLoop(tasks, at, i + 1, st)

dfs(tasks, at, st) ==
    LET st1 == [st EXCEPT !.stack = Append(@, at),
                          !.on_stack = @ \cup {at},
                          !.visited = @ \cup {at},
                          !.ids = (at :> st.id_counter) @@ @,
                          !.low = (at :> st.id_counter) @@ @,
                          !.id_counter = @ + 1]
        st2 == DfsLoop(tasks, at, 1, st1)
    IN IF st2.ids[at] = st2.low[at] THEN PopScc(at, st2, <<>>) ELSE st2

RECURSIVE SccRoots(_, _, _)
\* the `for task_id in tasks: if task_id not in visited: dfs(task_id)` loop
SccRoots(tasks, order, st) ==
    IF order = <<>> THEN st
    ELSE SccRoots(tasks, Tail(order),
                  IF Head(order) \in st.visited THEN st ELSE dfs(tasks, Head(order), st))

\* CycleRemover._find_sccs: Tarjan's algorithm, the list of components
_find_sccs(tasks) ==
    SccRoots(tasks, SortedSeq(Keys(tasks)),
             [visited |-> {}, stack |-> <<>>, on_stack |-> {}, ids |-> EmptyDict,
              low |-> EmptyDict, sccs |-> <<>>, id_counter |-> 0]).sccs

\* the tasks of the components that are cycles (size > 1, or a self-loop)
CycleTasks(tasks) ==
    LET sccs == _find_sccs(tasks)
    IN UNION {IF Len(sccs[k]) > 1 THEN Range(sccs[k])
              ELSE IF Len(sccs[k]) = 1 /\ sccs[k][1] \in Range(tasks[sccs[k][1]].successors)
                   THEN Range(sccs[k])
              ELSE {} : k \in 1..Len(sccs)}

RECURSIVE PropagateLoop(_, _, _)
RECURSIVE PropagateSuccs(_, _, _, _)
\* the `for succ in tasks[current].successors` loop of _propagate_removal
PropagateSuccs(succs, i, to_remove, queue) ==
    IF i > Len(succs) THEN [to_remove |-> to_remove, queue |-> queue]
    ELSE IF succs[i] \notin to_remove
         THEN PropagateSuccs(succs, i + 1, to_remove \cup {succs[i]}, Append(queue, succs[i]))
    ELSE PropagateSuccs(succs, i + 1, to_remove, queue)

\* the `while queue` loop of _propagate_removal
PropagateLoop(tasks, to_remove, queue) ==
    IF queue = <<>> THEN to_remove
    ELSE LET current == Head(queue)
         IN IF current \notin Keys(tasks) THEN PropagateLoop(tasks, to_remove, Tail(queue))
            ELSE LET r == PropagateSuccs(tasks[current].successors, 1, to_remove, Tail(queue))
                 IN PropagateLoop(tasks, r.to_remove, r.queue)

\* CycleRemover._propagate_removal
_propagate_removal(tasks, bad_tasks) ==
    PropagateLoop(tasks, bad_tasks, SortedSeq(bad_tasks))

\* the ids CycleRemover.map_problem drops from the task set
CycleRemoverRemoved(p) ==
    LET cycle_tasks == CycleTasks(p.tasks)
    IN IF cycle_tasks = {} THEN {} ELSE _propagate_removal(p.tasks, cycle_tasks)

\* the predecessors/successors list CycleRemover.map_problem gives a kept task
CycleRemoverList(list, tasks_to_remove) == Drop(list, tasks_to_remove)

\* CycleRemover.map_problem
CycleRemover_map_problem(p) ==
    LET cycle_tasks == CycleTasks(p.tasks)
        tasks_to_remove == CycleRemoverRemoved(p)
        new_tasks == [t \in Keys(p.tasks) \ tasks_to_remove |->
                        Task(p.tasks[t].id, p.tasks[t].duration,
                             CycleRemoverList(p.tasks[t].predecessors, tasks_to_remove),
                             CycleRemoverList(p.tasks[t].successors, tasks_to_remove),
                             p.tasks[t].compatible_teams)]
    IN IF cycle_tasks = {} THEN p
       ELSE ProblemInstance(Cardinality(Keys(new_tasks)), p.num_teams, new_tasks, p.teams)

(***************************************************************************)
(* DependencyPruner (middleware/dependency_pruner.py).                     *)
(***************************************************************************)
\* the tasks with a predecessor id that is not a key of the task dict
BrokenTasks(tasks) ==
    {t \in Keys(tasks) : \E i \in 1..Len(tasks[t].predecessors) :
                            tasks[t].predecessors[i] \notin Keys(tasks)}

RECURSIVE PrunerLoop(_, _, _)
RECURSIVE PrunerSuccs(_, _, _, _, _)
\* a successor loop that marks no successor for removal
PrunerSuccsNone(tasks, succs, i, to_remove, queue) ==
    [to_remove |-> to_remove, queue |-> queue]

\* the `for succ_id in current_task.successors` loop of map_problem
PrunerSuccs(tasks, succs, i, to_remove, queue) ==
    IF i > Len(succs) THEN [to_remove |-> to_remove, queue |-> queue]
    ELSE IF succs[i] \notin to_remove /\ succs[i] \in Keys(tasks)
         THEN PrunerSuccs(tasks, succs, i + 1, to_remove \cup {succs[i]}, Append(queue, succs[i]))
    ELSE PrunerSuccs(tasks, succs, i + 1, to_remove, queue)

\* the `while queue` loop of map_problem
PrunerLoop(tasks, to_remove, queue) ==
    IF queue = <<>> THEN to_remove
    ELSE LET current_id == Head(queue)
         IN IF current_id \notin Keys(tasks) THEN PrunerLoop(tasks, to_remove, Tail(queue))
            ELSE LET r == PrunerSuccs(tasks, tasks[current_id].successors, 1,
                                      to_remove, Tail(queue))
                 IN PrunerLoop(tasks, r.to_remove, r.queue)

\* a DependencyPruner that drops the broken tasks and does not propagate
PrunerRemovedBrokenOnly(p) == BrokenTasks(p.tasks)

\* the ids DependencyPruner.map_problem drops from the task set
PrunerRemoved(p) ==
    PrunerLoop(p.tasks, BrokenTasks(p.tasks), SortedSeq(BrokenTasks(p.tasks)))

\* a DependencyPruner that copies the successors list of a kept task unfiltered
PrunerSuccessorsUnfiltered(list, final_valid_ids) == list

\* the successors list DependencyPruner.map_problem gives a kept task
PrunerSuccessors(list, final_valid_ids) == Keep(list, final_valid_ids)

\* the predecessors list DependencyPruner.map_problem gives a kept task
PrunerPredecessors(list, final_valid_ids) == Keep(list, final_valid_ids)

\* DependencyPruner.map_problem
DependencyPruner_map_problem(p) ==
    LET to_remove == PrunerRemoved(p)
        final_valid_ids == Keys(p.tasks) \ to_remove
        new_tasks == [t \in final_valid_ids |->
                        Task(p.tasks[t].id, p.tasks[t].duration,
                             PrunerPredecessors(p.tasks[t].predecessors, final_valid_ids),
                             PrunerSuccessors(p.tasks[t].successors, final_valid_ids),
                             p.tasks[t].compatible_teams)]
    IN ProblemInstance(Cardinality(Keys(new_tasks)), p.num_teams, new_tasks, p.teams)

(***************************************************************************)
(* ImpossibleTaskRemover.map_problem: drops the tasks no team can run and  *)
(* their ids from the lists of the tasks it keeps.                         *)
(***************************************************************************)
ImpossibleTasks(tasks) == {t \in Keys(tasks) : Keys(tasks[t].compatible_teams) = {}}

\* the variant that filters the predecessors only and copies the successors
ImpossibleTaskRemoverKeepsSuccessors(p) ==
    LET to_remove == ImpossibleTasks(p.tasks)
        new_tasks == [t \in Keys(p.tasks) \ to_remove |->
                        Task(p.tasks[t].id, p.tasks[t].duration,
                             Drop(p.tasks[t].predecessors, to_remove),
                             p.tasks[t].successors,
                             p.tasks[t].compatible_teams)]
    IN ProblemInstance(Cardinality(Keys(new_tasks)), p.num_teams, new_tasks, p.teams)

ImpossibleTaskRemover_map_problem(p) ==
    LET to_remove == ImpossibleTasks(p.tasks)
        new_tasks == [t \in Keys(p.tasks) \ to_remove |->
                        Task(p.tasks[t].id, p.tasks[t].duration,
                             Drop(p.tasks[t].predecessors, to_remove),
                             Drop(p.tasks[t].successors, to_remove),
                             p.tasks[t].compatible_teams)]
    IN ProblemInstance(Cardinality(Keys(new_tasks)), p.num_teams, new_tasks, p.teams)

(***************************************************************************)
(* ContinuousIndexer: ContinuousIndexMap numbers the sorted ids from 0;    *)
(* run relabels the problem, calls the wrapped stage and maps the          *)
(* assignments it returns back.                                            *)
(***************************************************************************)
ContinuousIndexMap(indices) ==
    LET sorted == SortedSeq(indices)
    IN [old_to_new |-> [old_id \in indices |->
                          (CHOOSE k \in 1..Len(sorted) : sorted[k] = old_id) - 1],
        new_to_old |-> [new_id \in 0..(Len(sorted) - 1) |-> sorted[new_id + 1]]]

to_continuous_unchanged(map, old_id) == old_id

to_continuous(map, old_id) == map.old_to_new[old_id]

from_continuous_unchanged(map, new_id) == new_id

from_continuous(map, new_id) == map.new_to_old[new_id]

\* [to_continuous(x) for x in list if x in map]
IndexedList(map, list) ==
    LET kept == Keep(list, Keys(map.old_to_new))
    IN [i \in 1..Len(kept) |-> to_continuous(map, kept[i])]

\* {to_continuous(tid): cost for tid, cost in compatible_teams.items() if tid in map}
IndexedCompatibleTeams(map, compatible_teams) ==
    LET kept == Keys(compatible_teams) \cap Keys(map.old_to_new)
    IN [new_id \in {to_continuous(map, tid) : tid \in kept} |->
          compatible_teams[CHOOSE tid \in kept : to_continuous(map, tid) = new_id]]

TaskIndexMap(p) == ContinuousIndexMap(Keys(p.tasks))
TeamIndexMap(p) == ContinuousIndexMap({p.teams[k].id : k \in Keys(p.teams)})

\* the new_problem of ContinuousIndexer.run
IndexedProblem(p) ==
    LET task_ids == TaskIndexMap(p)
        team_ids == TeamIndexMap(p)
        new_tasks == [new_id \in {to_continuous(task_ids, t) : t \in Keys(p.tasks)} |->
                        LET old_id == CHOOSE t \in Keys(p.tasks) :
                                          to_continuous(task_ids, t) = new_id
                            old_task == p.tasks[old_id]
                        IN Task(new_id, old_task.duration,
                                IndexedList(task_ids, old_task.predecessors),
                                IndexedList(task_ids, old_task.successors),
                                IndexedCompatibleTeams(team_ids, old_task.compatible_teams))]
        new_teams == [new_id \in {to_continuous(team_ids, p.teams[k].id) : k \in Keys(p.teams)} |->
                        p.teams[CHOOSE k \in Keys(p.teams) :
                                    to_continuous(team_ids, p.teams[k].id) = new_id]]
    IN ProblemInstance(Cardinality(Keys(new_tasks)), p.num_teams, new_tasks, new_teams)

Assignment(task_id, team_id, start_time) ==
    [task_id |-> task_id, team_id |-> team_id, start_time |-> start_time]

\* the loop that maps the wrapped stage's assignments back: one of an unknown
\* task id is skipped, a team id outside the map raises KeyError
RECURSIVE MapBack(_, _, _, _, _)

MapBack(task_ids, team_ids, assignments, i, new_assignments) ==
    IF i > Len(assignments) THEN [raised |-> "", assignments |-> new_assignments]
    ELSE IF assignments[i].task_id \notin Keys(task_ids.new_to_old)
    THEN MapBack(task_ids, team_ids, assignments, i + 1, new_assignments)
    ELSE IF assignments[i].team_id \notin Keys(team_ids.new_to_old)
    THEN [raised |-> "KeyError", assignments |-> <<>>]
    ELSE MapBack(task_ids, team_ids, assignments, i + 1,
                 Append(new_assignments,
                        Assignment(from_continuous(task_ids, assignments[i].task_id),
                                   from_continuous(team_ids, assignments[i].team_id),
                                   assignments[i].start_time)))

(***************************************************************************)
(* Python floats (IEEE 754 binary64) as far as Pipeline.run computes with  *)
(* them: a positive float is [m, e] with m its 53 significand bits, first  *)
(* bit 1, and value m * 2^e; quotients and products are rounded to the     *)
(* nearest float, ties to the even significand.                            *)
(***************************************************************************)
Precision == 53

Zero == [m |-> <<>>, e |-> 0]
\* float("inf")
Inf == [m |-> <<>>, e |-> 1]

Front(bits) == SubSeq(bits, 1, Len(bits) - 1)
Last(bits) == bits[Len(bits)]

\* binary digits of a natural number, most significant first
RECURSIVE BitsOf(_)

BitsOf(n) == IF n = 0 THEN <<>> ELSE Append(BitsOf(n \div 2), n % 2)

\* bits + 1 and bits - 1 on binary digits
RECURSIVE Inc(_)

Inc(bits) ==
    IF bits = <<>> THEN <<1>>
    ELSE IF Last(bits) = 0 THEN Append(Front(bits), 1)
    ELSE Append(Inc(Front(bits)), 0)

RECURSIVE Dec(_)

Dec(bits) ==
    IF Last(bits) = 1 THEN Append(Front(bits), 0) ELSE Append(Dec(Front(bits)), 1)

\* the float nearest to (bits + a fraction below 1, nonzero iff sticky) * 2^e
RoundNearestEven(bits, sticky, e) ==
    LET L == Len(bits)
    IN IF L <= Precision
       THEN [m |-> bits \o [i \in 1..(Precision - L) |-> 0], e |-> e - (Precision - L)]
       ELSE LET kept == SubSeq(bits, 1, Precision)
                rest == sticky \/ \E i \in (Precision + 2)..L : bits[i] = 1
                up == bits[Precision + 1] = 1 /\ (rest \/ Last(kept) = 1)
                r == IF up THEN Inc(kept) ELSE kept
            IN IF Len(r) > Precision
               THEN [m |-> Front(r), e |-> e + (L - Precision) + 1]
               ELSE [m |-> r, e |-> e + (L - Precision)]

\* long division a / b; st holds the digits found so far (from the first 1),
\* the remainder and the weight of the last digit
RECURSIVE DivBits(_, _)

DivBits(b, st) ==
    IF Len(st.bits) > Precision THEN RoundNearestEven(st.bits, st.rem # 0, st.e)
    ELSE LET d == IF 2 * st.rem >= b THEN 1 ELSE 0
         IN DivBits(b, [bits |-> IF st.bits = <<>> /\ d = 0 THEN <<>> ELSE Append(st.bits, d),
                        rem |-> 2 * st.rem - d * b,
                        e |-> st.e - 1])

\* a / b for integer-valued floats a >= 0, b > 0
fdiv(a, b) ==
    IF a = 0 THEN Zero ELSE DivBits(b, [bits |-> BitsOf(a \div b), rem |-> a % b, e |-> 0])

\* bits * n on binary digits, from the last digit; st holds the position, the
\* carry and the digits of the product found so far
RECURSIVE MulSmall(_, _, _)

MulSmall(bits, n, st) ==
    IF st.i = 0 THEN BitsOf(st.carry) \o st.out
    ELSE LET v == bits[st.i] * n + st.carry
         IN MulSmall(bits, n, [i |-> st.i - 1, carry |-> v \div 2, out |-> <<v % 2>> \o st.out])

\* x * n for a float x >= 0 and an integer-valued float n >= 0
fmul(x, n) ==
    IF x = Zero \/ n = 0 THEN Zero ELSE RoundNearestEven(MulSmall(x.m, n, [i |-> Len(x.m), carry |-> 0, out |-> <<>>]), FALSE, x.e)

(***************************************************************************)
(* The array form of a problem (_preprocess) and the heap-based decode,    *)
(* the same code in TabuSearchSolver and TabuSearchMiddleware.  A dict is  *)
(* iterated in ascending key order, the order the fixtures insert in.      *)
(***************************************************************************)
\* stands for sys.maxsize: above every makespan and every total cost
sys_maxsize == 2147483647
\* stands for 10**12, the cost of a team that is not compatible
INF == 1000000000

\* tuple comparison of two fitness triples
LexLess(a, b) ==
    \/ a[1] < b[1]
    \/ a[1] = b[1] /\ a[2] < b[2]
    \/ a[1] = b[1] /\ a[2] = b[2] /\ a[3] < b[3]

Solution(task_order, team_assignment, fitness) ==
    [task_order |-> task_order, team_assignment |-> team_assignment, fitness |-> fitness]

\* fitness = None
None == <<>>

_preprocess(p) ==
    [num_tasks |-> p.num_tasks,
     num_teams |-> p.num_teams,
     team_initial_availability |-> [m \in Keys(p.teams) |-> p.teams[m].available_from],
     durations |-> [t \in Keys(p.tasks) |-> p.tasks[t].duration],
     predecessors |-> [t \in Keys(p.tasks) |-> p.tasks[t].predecessors],
     successors |-> [t \in Keys(p.tasks) |-> p.tasks[t].successors],
     initial_in_degrees |-> [t \in Keys(p.tasks) |-> Len(p.tasks[t].predecessors)],
     compatible_teams_indices |->
         [t \in Keys(p.tasks) |-> SortedSeq(Keys(p.tasks[t].compatible_teams))],
     team_costs |-> [t \in Keys(p.tasks) |-> [m \in Keys(p.teams) |->
                       IF m \in Keys(p.tasks[t].compatible_teams)
                       THEN p.tasks[t].compatible_teams[m] ELSE INF]],
     tasks_with_teams |->
         SortedSeq({t \in Keys(p.tasks) : Keys(p.tasks[t].compatible_teams) # {}})]

\* the finish time of the predecessor listed last
PredsCompleteTimeOfLast(preds, i, task_finish_times, acc) ==
    IF preds = <<>> THEN 0 ELSE Max2(0, task_finish_times[preds[Len(preds)]])

\* the largest finish time among preds, at least 0; an unfinished task has -1
RECURSIVE PredsCompleteTime(_, _, _, _)

PredsCompleteTime(preds, i, task_finish_times, acc) ==
    IF i > Len(preds) THEN acc
    ELSE PredsCompleteTime(preds, i + 1, task_finish_times,
                           Max2(acc, task_finish_times[preds[i]]))

StartTimeOfTeam(team_available, preds_complete_time) == team_available

\* start_time = max(team_available[team_idx], preds_complete_time)
StartTime(team_available, preds_complete_time) == Max2(team_available, preds_complete_time)

\* the position in ready_heap of the smallest (priority, task_id)
HeapMin(ready_heap, priority) ==
    CHOOSE k \in 1..Len(ready_heap) : \A j \in 1..Len(ready_heap) :
        \/ priority[ready_heap[k]] < priority[ready_heap[j]]
        \/ /\ priority[ready_heap[k]] = priority[ready_heap[j]]
           /\ ready_heap[k] <= ready_heap[j]

\* a decode that releases no successor
UnlockNone(self, succs, i, priority, st) == st

\* the loop over the successors of a scheduled task
RECURSIVE Unlock(_, _, _, _, _)

Unlock(self, succs, i, priority, st) ==
    IF i > Len(succs) THEN st
    ELSE LET s == succs[i]
             degree == st.current_in_degrees[s] - 1
         IN Unlock(self, succs, i + 1, priority,
                   [st EXCEPT !.current_in_degrees[s] = degree,
                              !.ready_heap = IF degree = 0 /\ self.compatible_teams_indices[s] # <<>>
                                             THEN Append(@, s) ELSE @])

\* while ready_heap
RECURSIVE DecodeLoop(_, _, _, _)

DecodeLoop(self, solution, priority, st) ==
    IF st.ready_heap = <<>> THEN st
    ELSE LET k == HeapMin(st.ready_heap, priority)
             task_id == st.ready_heap[k]
             team_idx == solution.team_assignment[task_id]
             start_time == StartTime(st.team_available[team_idx],
                                     PredsCompleteTime(self.predecessors[task_id], 1,
                                                       st.task_finish_times, 0))
             finish_time == start_time + self.durations[task_id]
             popped == [st EXCEPT
                          !.ready_heap = SubSeq(@, 1, k - 1) \o SubSeq(@, k + 1, Len(@)),
                          !.task_finish_times[task_id] = finish_time,
                          !.team_available[team_idx] = finish_time,
                          !.assignments = Append(@, Assignment(task_id, team_idx, start_time))]
         IN DecodeLoop(self, solution, priority,
                       Unlock(self, self.successors[task_id], 1, priority, popped))

\* a decode that enqueues every task that has a team, whatever its in-degree
ReadyTasksAll(self) == self.tasks_with_teams

\* the tasks _decode pushes before the loop: those of tasks_with_teams with
\* in-degree 0
ReadyTasks(self) ==
    SelectSeq(self.tasks_with_teams, LAMBDA t : self.initial_in_degrees[t] = 0)

\* _decode: the working state when the loop ends; .assignments is returned
_decode(self, solution) ==
    LET ranks == {r \in 1..Len(solution.task_order) :
                    \A q \in (r + 1)..Len(solution.task_order) :
                        solution.task_order[q] # solution.task_order[r]}
        priority == [t \in 0..(self.num_tasks - 1) |->
                       IF \E r \in ranks : solution.task_order[r] = t
                       THEN (CHOOSE r \in ranks : solution.task_order[r] = t) - 1 ELSE 0]
        ready == ReadyTasks(self)
    IN DecodeLoop(self, solution, priority,
                  [team_available |-> self.team_initial_availability,
                   task_finish_times |-> [t \in 0..(self.num_tasks - 1) |-> -1],
                   current_in_degrees |-> self.initial_in_degrees,
                   ready_heap |-> ready,
                   assignments |-> <<>>])

SelfAfterDecodeInPlace(self, st) ==
    [self EXCEPT !.team_initial_availability = st.team_available,
                 !.initial_in_degrees = st.current_in_degrees]

\* the solver's arrays after a _decode call: team_available and
\* current_in_degrees are list(...) copies, so the call leaves them as they were
SelfAfterDecode(self, st) == self

\* the fitness of a decoded assignment list
RECURSIVE FitnessLoop(_, _, _, _)

FitnessLoop(self, assignments, i, acc) ==
    IF i > Len(assignments) THEN acc
    ELSE LET a == assignments[i]
         IN FitnessLoop(self, assignments, i + 1,
                        <<acc[1] - 1,
                          Max2(acc[2], a.start_time + self.durations[a.task_id]),
                          acc[3] + self.team_costs[a.task_id][a.team_id]>>)

\* an _evaluate that counts the assignments upwards
FitnessCountingUp(self, assignments) ==
    IF assignments = <<>> THEN <<0, sys_maxsize, sys_maxsize>>
    ELSE LET f == FitnessLoop(self, assignments, 1, <<0, 0, 0>>)
         IN <<-f[1], f[2], f[3]>>

Fitness(self, assignments) ==
    IF assignments = <<>> THEN <<0, sys_maxsize, sys_maxsize>>
    ELSE FitnessLoop(self, assignments, 1, <<0, 0, 0>>)

Lex4Less(a, b) ==
    \/ a[1] < b[1]
    \/ a[1] = b[1] /\ LexLess(<<a[2], a[3], a[4]>>, <<b[2], b[3], b[4]>>)

\* start = max(team_available[team_idx], pred_done_time)
EarliestStartOfTeam(self, st, tid, team_idx) == st.team_available[team_idx]

EarliestStart(self, st, tid, team_idx) ==
    Max2(st.team_available[team_idx],
         PredsCompleteTime(self.predecessors[tid], 1, st.task_finish_times, 0))

\* the while-loop of _generate_initial_solution; remaining is visited in
\* ascending order, and a later candidate wins only when strictly better
RECURSIVE GreedyLoop(_, _)

GreedyLoop(self, st) ==
    IF st.remaining = {} THEN st
    ELSE LET ready == {tid \in st.remaining :
                         \A i \in 1..Len(self.predecessors[tid]) :
                             st.task_finish_times[self.predecessors[tid][i]] # -1}
             options == {c \in ready \X (0..(self.num_teams - 1)) :
                           c[2] \in Range(self.compatible_teams_indices[c[1]])}
             start(c) == EarliestStart(self, st, c[1], c[2])
             key(c) == <<start(c), self.team_costs[c[1]][c[2]], c[1], c[2]>>
             best == CHOOSE c \in options :
                         \A d \in options : c = d \/ Lex4Less(key(c), key(d))
             finish == start(best) + self.durations[best[1]]
         IN IF options = {}
            THEN [st EXCEPT
                    !.remaining = {},
                    !.task_order = @ \o SortedSeq(st.remaining),
                    !.team_assignment = [t \in DOMAIN @ |->
                        IF t \in st.remaining THEN self.compatible_teams_indices[t][1]
                        ELSE @[t]]]
            ELSE GreedyLoop(self,
                    [remaining |-> st.remaining \ {best[1]},
                     team_available |-> [st.team_available EXCEPT ![best[2]] = finish],
                     task_finish_times |-> [st.task_finish_times EXCEPT ![best[1]] = finish],
                     task_order |-> Append(st.task_order, best[1]),
                     team_assignment |-> [st.team_assignment EXCEPT ![best[1]] = best[2]]])

_generate_initial_solution(self) ==
    LET st == GreedyLoop(self,
                [remaining |-> Range(self.tasks_with_teams),
                 team_available |-> self.team_initial_availability,
                 task_finish_times |-> [t \in 0..(self.num_tasks - 1) |-> -1],
                 task_order |-> <<>>,
                 team_assignment |-> [t \in 0..(self.num_tasks - 1) |-> 0]])
    IN Solution(st.task_order, st.team_assignment, None)

Move(move_type, task_id_1, task_id_2) ==
    [move_type |-> move_type, task_id_1 |-> task_id_1, task_id_2 |-> task_id_2]

\* the positions (i, j), i < j, row by row
RECURSIVE SwapCandidates(_, _)

SwapCandidates(n, i) ==
    IF i >= n THEN <<>>
    ELSE [j \in 1..(n - i) |-> <<i, i + j>>] \o SwapCandidates(n, i + 1)

\* the (tid, new_team_idx) pairs of the tasks with more than one team
RECURSIVE ReassignCandidates(_, _, _)

ReassignCandidates(self, solution, k) ==
    IF k > Len(self.tasks_with_teams) THEN <<>>
    ELSE LET tid == self.tasks_with_teams[k]
             opts == self.compatible_teams_indices[tid]
             others == SelectSeq(opts, LAMBDA m : m # solution.team_assignment[tid])
         IN (IF Len(opts) > 1 THEN [x \in 1..Len(others) |-> <<tid, others[x]>>] ELSE <<>>)
            \o ReassignCandidates(self, solution, k + 1)

\* _get_neighbors; neither candidate list of an instance this small exceeds
\* max_neighbors // 2, so random.sample is never called
_get_neighbors(self, solution) ==
    LET task_order == solution.task_order
        swaps == SwapCandidates(Len(task_order), 1)
        moves == ReassignCandidates(self, solution, 1)
    IN [x \in 1..Len(swaps) |->
           LET i == swaps[x][1]
               j == swaps[x][2]
           IN [solution |-> Solution([task_order EXCEPT ![i] = task_order[j],
                                                        ![j] = task_order[i]],
                                     solution.team_assignment, None),
               move |-> Move("swap", task_order[i], task_order[j])]]
       \o [x \in 1..Len(moves) |->
           [solution |-> Solution(task_order,
                                  [solution.team_assignment EXCEPT ![moves[x][1]] = moves[x][2]],
                                  None),
            move |-> Move("team", moves[x][1], moves[x][2])]]

\* a table that forbids nothing
_is_tabu_never(move, tabu, current_iter) == FALSE

_is_tabu(move, tabu, current_iter) ==
    IF move \notin DOMAIN tabu THEN FALSE ELSE tabu[move] > current_iter

\* a comparison that lets a later neighbour of the same score win
ImprovesOrTies(candidate, held) == ~LexLess(held, candidate)

\* if score < best_neighbor_score
Improves(candidate, held) == LexLess(candidate, held)

\* the for-loop over the neighbours, left at position cut by the budget check
RECURSIVE SelectNeighbor(_, _, _, _, _, _)

SelectNeighbor(neighbors, cut, tabu, current_iter, incumbent_score, st) ==
    IF st.i > Len(neighbors) \/ st.i >= cut THEN st
    ELSE LET neighbor == neighbors[st.i].solution
             move == neighbors[st.i].move
             decoded == _decode(st.self, neighbor)
             score == Fitness(st.self, decoded.assignments)
             skip == _is_tabu(move, tabu, current_iter) /\ ~LexLess(score, incumbent_score)
             take == ~skip /\ Improves(score, st.best_neighbor_score)
         IN SelectNeighbor(neighbors, cut, tabu, current_iter, incumbent_score,
                [self |-> SelfAfterDecode(st.self, decoded),
                 i |-> st.i + 1,
                 found |-> st.found \/ take,
                 best_neighbor |-> IF take THEN [neighbor EXCEPT !.fitness = score]
                                   ELSE st.best_neighbor,
                 best_neighbor_score |-> IF take THEN score ELSE st.best_neighbor_score,
                 best_assignments |-> IF take THEN decoded.assignments
                                      ELSE st.best_assignments,
                 best_move |-> IF take THEN move ELSE st.best_move])

\* every outcome of random.shuffle and random.choice
Shuffles(s) ==
    {o \in [1..Len(s) -> Range(s)] : \A a, b \in 1..Len(s) : a # b => o[a] # o[b]}

RandomTeams(self, fixed, free) ==
    {ta \in [0..(self.num_tasks - 1) -> 0..Max2(self.num_teams - 1, 0)] :
        \A t \in 0..(self.num_tasks - 1) :
            IF t \in free THEN ta[t] \in Range(self.compatible_teams_indices[t])
            ELSE ta[t] = fixed[t]}

\* restarts that leave out the first task of the shuffled order
RandomRestartsShort(self) ==
    {Solution(Tail(o), ta, None) :
        o \in Shuffles(self.tasks_with_teams),
        ta \in RandomTeams(self, [t \in 0..(self.num_tasks - 1) |-> 0],
                           Range(self.tasks_with_teams))}

RandomRestarts(self) ==
    {Solution(o, ta, None) :
        o \in Shuffles(self.tasks_with_teams),
        ta \in RandomTeams(self, [t \in 0..(self.num_tasks - 1) |-> 0],
                           Range(self.tasks_with_teams))}

TrackIncumbentAlways(incumbent, solution) == solution

\* if current_score < best_score: best = solution
TrackIncumbent(incumbent, solution) ==
    IF LexLess(solution.fitness, incumbent.fitness) THEN solution ELSE incumbent

\* sorted(assignments, key=start_time): stable
RECURSIVE SortedByStart(_)

SortedByStart(assignments) ==
    IF assignments = <<>> THEN <<>>
    ELSE LET rest == SortedByStart(Front(assignments))
             a == Last(assignments)
             before == SelectSeq(rest, LAMBDA b : b.start_time <= a.start_time)
             after == SelectSeq(rest, LAMBDA b : b.start_time > a.start_time)
         IN before \o <<a>> \o after

\* _schedule_to_solution: every outcome of the shuffle and the choices
SeedSolutions(self, assignments) ==
    LET sorted_assignments == SortedByStart(assignments)
        task_order == [i \in 1..Len(sorted_assignments) |-> sorted_assignments[i].task_id]
        remaining == SelectSeq(self.tasks_with_teams, LAMBDA t : t \notin Range(task_order))
        seeded == [t \in 0..(self.num_tasks - 1) |->
                     LET hits == {i \in 1..Len(assignments) : assignments[i].task_id = t}
                     IN IF hits = {} THEN 0
                        ELSE assignments[CHOOSE i \in hits : \A j \in hits : j <= i].team_id]
    IN {Solution(task_order \o o, ta, None) :
           o \in Shuffles(remaining), ta \in RandomTeams(self, seeded, Range(remaining))}

(***************************************************************************)
(* HillClimbingMiddleware: the list-scan decode and the first-improvement  *)
(* step.                                                                   *)
(***************************************************************************)
\* one pass of "for task_id in pending"
RECURSIVE HillPass(_, _, _, _, _)

HillPass(p, team_assignment, pending, i, st) ==
    IF i > Len(pending) THEN st
    ELSE LET task_id == pending[i]
             task == p.tasks[task_id]
             preds_ready == \A k \in 1..Len(task.predecessors) :
                                task.predecessors[k] \in DOMAIN st.scheduled_finishes
             preds_time == PredsCompleteTime(task.predecessors, 1, st.scheduled_finishes, 0)
             team_id == team_assignment[task_id]
             start_time == Max2(st.team_available[team_id], preds_time)
             finish == start_time + task.duration
         IN HillPass(p, team_assignment, pending, i + 1,
                IF task_id \in DOMAIN st.scheduled_finishes \/ task_id \notin Keys(p.tasks)
                THEN st
                ELSE IF ~preds_ready THEN [st EXCEPT !.next_pending = Append(@, task_id)]
                ELSE IF task_id \notin DOMAIN team_assignment THEN st
                ELSE IF team_id \notin DOMAIN st.team_available THEN st
                ELSE [scheduled_finishes |-> (task_id :> finish) @@ st.scheduled_finishes,
                      team_available |-> [st.team_available EXCEPT ![team_id] = finish],
                      assignments |-> Append(st.assignments,
                                             Assignment(task_id, team_id, start_time)),
                      next_pending |-> st.next_pending,
                      progress |-> TRUE])

\* while pending
RECURSIVE HillDecodeLoop(_, _, _, _)

HillDecodeLoop(p, team_assignment, pending, st) ==
    IF pending = <<>> THEN st.assignments
    ELSE LET pass == HillPass(p, team_assignment, pending, 1,
                              [st EXCEPT !.next_pending = <<>>, !.progress = FALSE])
         IN IF ~pass.progress THEN pass.assignments
            ELSE HillDecodeLoop(p, team_assignment, pass.next_pending, pass)

HillClimbing_decode(p, task_order, team_assignment) ==
    HillDecodeLoop(p, team_assignment, task_order,
                   [scheduled_finishes |-> EmptyDict,
                    team_available |-> [m \in Keys(p.teams) |-> p.teams[m].available_from],
                    assignments |-> <<>>,
                    next_pending |-> <<>>,
                    progress |-> FALSE])

\* _evaluate of the middleware: the score of the decoded list
HillClimbing_evaluate(p, task_order, team_assignment) ==
    Fitness(_preprocess(p), HillClimbing_decode(p, task_order, team_assignment))

\* map_result up to "Evaluate initial": every outcome of the shuffle and choices
HillSeeds(p, assignments) ==
    LET sorted_assignments == SortedByStart(assignments)
        task_order == [i \in 1..Len(sorted_assignments) |-> sorted_assignments[i].task_id]
        missing_ids == SortedSeq(Keys(p.tasks) \ Range(task_order))
        choosers == {t \in Range(missing_ids) : Keys(p.tasks[t].compatible_teams) # {}}
        seeded == [t \in Range(task_order) |->
                     LET hits == {i \in 1..Len(sorted_assignments) :
                                     sorted_assignments[i].task_id = t}
                     IN sorted_assignments[CHOOSE i \in hits : \A j \in hits : j <= i].team_id]
    IN {Solution(task_order \o o, seeded @@ ta,
                 HillClimbing_evaluate(p, task_order \o o, seeded @@ ta)) :
           o \in Shuffles(missing_ids),
           ta \in {f \in [choosers -> Keys(p.teams)] :
                     \A t \in choosers : f[t] \in Keys(p.tasks[t].compatible_teams)}}

\* the orders one swap away, each with its score
HillSwaps(p, solution) ==
    LET n == Len(solution.task_order)
    IN {Solution(o, solution.team_assignment,
                 HillClimbing_evaluate(p, o, solution.team_assignment)) :
           o \in {[solution.task_order EXCEPT ![c[1]] = solution.task_order[c[2]],
                                             ![c[2]] = solution.task_order[c[1]]] :
                     c \in {d \in (1..n) \X (1..n) : d[1] < d[2]}}}

\* for a task, the first team in compat order that improves, if any
HillTeamMoves(p, solution) ==
    LET better(tid, m) ==
            /\ m # solution.team_assignment[tid]
            /\ LexLess(HillClimbing_evaluate(p, solution.task_order,
                           [solution.team_assignment EXCEPT ![tid] = m]),
                       solution.fitness)
        movable == {tid \in DOMAIN solution.team_assignment :
                      /\ tid \in Keys(p.tasks)
                      /\ \E m \in Keys(p.tasks[tid].compatible_teams) : better(tid, m)}
        first(tid) == CHOOSE m \in Keys(p.tasks[tid].compatible_teams) :
                          /\ better(tid, m)
                          /\ \A k \in Keys(p.tasks[tid].compatible_teams) :
                                 better(tid, k) => m <= k
    IN {LET ta == [solution.team_assignment EXCEPT ![tid] = first(tid)]
        IN Solution(solution.task_order, ta,
                    HillClimbing_evaluate(p, solution.task_order, ta)) : tid \in movable}

\* passes that also take a neighbour of the same score
HillImprovementsOrTies(p, solution) ==
    {s \in HillSwaps(p, solution) : ~LexLess(solution.fitness, s.fitness)}

\* one pass of the outer loop that improves: an improving swap the random
\* attempts hit first, or, when every attempt can miss, an improving team change
HillImprovements(p, solution) ==
    LET swaps == HillSwaps(p, solution)
        improving == {s \in swaps : LexLess(s.fitness, solution.fitness)}
    IN improving \cup (IF improving = swaps /\ swaps # {} THEN {}
                       ELSE HillTeamMoves(p, solution))

(***************************************************************************)
(* validate_schedule: the errors in the order they are appended.            *)
(***************************************************************************)
Error(message, assignment) == [message |-> message, assignment |-> assignment]

\* the loop over schedule.assignments
RECURSIVE ValidateEach(_, _, _, _)

ValidateEach(instance, assignments, i, st) ==
    IF i > Len(assignments) THEN st
    ELSE LET a == assignments[i]
             task == instance.tasks[a.task_id]
             team == instance.teams[a.team_id]
             seen == \E k \in 1..Len(st.scheduled_tasks) :
                         st.scheduled_tasks[k].task_id = a.task_id
         IN ValidateEach(instance, assignments, i + 1,
                IF a.task_id \notin Keys(instance.tasks)
                THEN [st EXCEPT !.errors = Append(@, Error("Task does not exist", a))]
                ELSE IF a.team_id \notin Keys(instance.teams)
                THEN [st EXCEPT !.errors = Append(@, Error("Team does not exist", a))]
                ELSE [scheduled_tasks |-> IF seen THEN st.scheduled_tasks
                                          ELSE Append(st.scheduled_tasks, a),
                      grouped |-> Append(st.grouped, a),
                      errors |-> st.errors
                         \o (IF seen THEN <<Error("Task is scheduled multiple times", a)>>
                             ELSE <<>>)
                         \o (IF a.team_id \notin Keys(task.compatible_teams)
                             THEN <<Error("Team is not compatible with Task", a)>> ELSE <<>>)
                         \o (IF a.start_time < team.available_from
                             THEN <<Error("Task starts before team is available", a)>>
                             ELSE <<>>)])

\* a checker that reports no precedence error
NoPrecedenceErrors(instance, scheduled_tasks, a) == <<>>

\* the precedence errors of one scheduled task
PrecedenceErrors(instance, scheduled_tasks, a) ==
    LET preds == instance.tasks[a.task_id].predecessors
        at(pred_id) == scheduled_tasks[CHOOSE k \in 1..Len(scheduled_tasks) :
                                           scheduled_tasks[k].task_id = pred_id]
        late == SelectSeq(preds, LAMBDA pred_id :
                    /\ \E k \in 1..Len(scheduled_tasks) : scheduled_tasks[k].task_id = pred_id
                    /\ a.start_time < at(pred_id).start_time + instance.tasks[pred_id].duration)
    IN [x \in 1..Len(late) |-> Error("Precedence violation", a)]

\* the overlap errors of one team's assignments
OverlapErrors(instance, assignments) ==
    LET sorted_assignments == SortedByStart(assignments)
        clash == {i \in 1..(Len(sorted_assignments) - 1) :
                    sorted_assignments[i].start_time
                      + instance.tasks[sorted_assignments[i].task_id].duration
                    > sorted_assignments[i + 1].start_time}
        at == SortedSeq(clash)
    IN [x \in 1..Len(at) |-> Error("Team overlap", sorted_assignments[at[x] + 1])]

RECURSIVE Concat(_)

Concat(seqs) == IF seqs = <<>> THEN <<>> ELSE Concat(Front(seqs)) \o Last(seqs)

validate_schedule(instance, assignments) ==
    LET st == ValidateEach(instance, assignments, 1,
                           [scheduled_tasks |-> <<>>, grouped |-> <<>>, errors |-> <<>>])
        teams == [i \in 1..Len(st.grouped) |-> st.grouped[i].team_id]
        first == SelectSeq([i \in 1..Len(teams) |-> i],
                           LAMBDA i : \A j \in 1..(i - 1) : teams[j] # teams[i])
        errors == st.errors
            \o Concat([k \in 1..Len(st.scheduled_tasks) |->
                         PrecedenceErrors(instance, st.scheduled_tasks, st.scheduled_tasks[k])])
            \o Concat([k \in 1..Len(first) |->
                         OverlapErrors(instance,
                             SelectSeq(st.grouped, LAMBDA a : a.team_id = teams[first[k]]))])
    IN [is_valid |-> errors = <<>>, errors |-> errors]

(***************************************************************************)
(* grade_schedule (grader.py): the Score of a schedule.                    *)
(***************************************************************************)
Score(num_tasks, makespan, total_cost) ==
    [num_tasks |-> num_tasks, makespan |-> makespan, total_cost |-> total_cost]

\* a grader that takes the start of a task for its completion time
FinishTimeIsStart(assignment, task) == assignment.start_time

\* finish_time = assignment.start_time + task.duration
FinishTime(assignment, task) == assignment.start_time + task.duration

\* the loop over schedule.assignments; instance.tasks[...] of an id that names
\* no task raises KeyError
RECURSIVE GradeEach(_, _, _, _)

GradeEach(instance, assignments, i, st) ==
    IF i > Len(assignments) \/ st.raised # "" THEN st
    ELSE LET assignment == assignments[i]
             task == instance.tasks[assignment.task_id]
             finish_time == FinishTime(assignment, task)
             cost == IF assignment.team_id \in Keys(task.compatible_teams)
                     THEN task.compatible_teams[assignment.team_id] ELSE 0
         IN GradeEach(instance, assignments, i + 1,
                IF assignment.task_id \notin Keys(instance.tasks)
                THEN [st EXCEPT !.raised = "KeyError"]
                ELSE [raised |-> "",
                      value |-> Score(st.value.num_tasks,
                                      Max2(st.value.makespan, finish_time),
                                      st.value.total_cost + cost)])

grade_schedule(instance, assignments) ==
    IF assignments = <<>> THEN [raised |-> "", value |-> Score(0, 0, 0)]
    ELSE GradeEach(instance, assignments, 1,
                   [raised |-> "", value |-> Score(Len(assignments), 0, 0)])

(***************************************************************************)
(* Assembling an instance: the task dict of the fixtures, whose lists are  *)
(* filled one entry at a time (they may name absent ids, the task itself,  *)
(* or a task that does not name this one back).                            *)
(***************************************************************************)
TaskIds == 1..NumTasks
\* NumTasks + 1 is an id that is never a key of the task dict
RefIds == 1..(NumTasks + 1)

NumRefs(p) ==
    LET RECURSIVE Sum(_)
        Sum(S) == IF S = {} THEN 0
                  ELSE LET t == CHOOSE x \in S : TRUE
                       IN Len(p.tasks[t].predecessors) + Len(p.tasks[t].successors)
                          + Sum(S \ {t})
    IN Sum(Keys(p.tasks))

\* the tasks of the evaluation fixture, without dependencies: task 1 of duration
\* 10 runs on team 1 (cost 5) or team 2 (cost 10), the others of duration 20 on
\* team 1 (cost 15)
FixtureTask(t) ==
    IF t = 1 THEN Task(t, 10, <<>>, <<>>, (1 :> 5) @@ (2 :> 10))
    ELSE Task(t, 20, <<>>, <<>>, (1 :> 15))

\* the teams of the evaluation fixture: team 1 free from 0, team 2 from 5
FixtureTeams == (1 :> Team(1, 0)) @@ (2 :> Team(2, 5))

FixtureProblem ==
    ProblemInstance(NumTasks, 2, [t \in TaskIds |-> FixtureTask(t)], FixtureTeams)

NoSchedule == [raised |-> "", assignments |-> <<>>]

IndexerIdle ==
    /\ indexed = FixtureProblem
    /\ inner = <<>>
    /\ schedule = NoSchedule

\* no stage was run: nothing handed down, no call made, no schedule returned
NoFlow == [handed |-> <<>>, calls |-> <<>>, result |-> <<>>, level |-> 0]

BudgetIdle ==
    /\ kinds = <<>>
    /\ flow = NoFlow
    /\ factors = <<>>
    /\ call = [total_budget |-> [set |-> FALSE, duration_seconds |-> 0],
               time_limit |-> [finite |-> FALSE, seconds |-> 0]]
    /\ allotted = <<>>
    /\ passed = <<>>
    /\ received = <<>>

CheckerIdle ==
    /\ result = [is_valid |-> TRUE, errors |-> <<>>]
    /\ graded = [raised |-> "", value |-> Score(0, 0, 0)]

\* no pass of a tabu search was made
NoScan ==
    [current |-> Solution(<<>>, EmptyDict, None), tabu_list |-> EmptyDict,
     best_score |-> None, best_move |-> Move("", 0, 0), moves |-> <<>>]

SearchIdle ==
    /\ stage = ""
    /\ solver = EmptyDict
    /\ seed = <<>>
    /\ attempts = <<>>
    /\ current_solution = Solution(<<>>, EmptyDict, None)
    /\ best_solution = Solution(<<>>, EmptyDict, None)
    /\ scored = <<>>
    /\ tabu_list = EmptyDict
    /\ iteration = 0
    /\ tabu_tenure = 0
    /\ scan = NoScan
    /\ time_budget = [started |-> FALSE, expired |-> FALSE]

InitRepair ==
    /\ problem = FixtureProblem
    /\ pc = "build"
    /\ prev = FixtureProblem
    /\ cur = FixtureProblem
    /\ applied = <<>>
    /\ ident = [prev |-> 0, cur |-> 0]
    /\ IndexerIdle
    /\ BudgetIdle
    /\ SearchIdle
    /\ CheckerIdle

\* tasks[t].predecessors.append(p)
AddPredecessor(t, p) ==
    /\ pc = "build"
    /\ NumRefs(problem) < MaxRefs
    /\ problem' = [problem EXCEPT !.tasks[t].predecessors = Append(@, p)]
    /\ cur' = problem'
    /\ prev' = problem'
    /\ UNCHANGED <<pc, applied, ident, indexVars, budgetVars, checkVars, searchVars>>

\* tasks[t].successors.append(s)
AddSuccessor(t, s) ==
    /\ pc = "build"
    /\ NumRefs(problem) < MaxRefs
    /\ problem' = [problem EXCEPT !.tasks[t].successors = Append(@, s)]
    /\ cur' = problem'
    /\ prev' = problem'
    /\ UNCHANGED <<pc, applied, ident, indexVars, budgetVars, checkVars, searchVars>>

\* Task(tid, 10, [], [], {}): no team can run task t
ClearTeams(t) ==
    /\ pc = "build"
    /\ Keys(problem.tasks[t].compatible_teams) # {}
    /\ problem' = [problem EXCEPT !.tasks[t].compatible_teams = EmptyDict]
    /\ cur' = problem'
    /\ prev' = problem'
    /\ UNCHANGED <<pc, applied, ident, indexVars, budgetVars, checkVars, searchVars>>

\* a middleware may run if it has not run yet and DependencyPruner has not run
MayApply(name) ==
    /\ pc \in {"build", "run"}
    /\ name \notin Range(applied)
    /\ "DependencyPruner" \notin Range(applied)

\* a stage that deletes the tasks and filters the lists of its input in place
MapProblemInputInPlace(p, new_problem) == new_problem

\* the input of map_problem when it returns: the three stages read problem.tasks
\* and build new lists, new Task objects and a new dict, and write to none of
\* the objects they were given
MapProblemInput(p, new_problem) == p

\* whether map_problem hands back the object it was given: only CycleRemover
\* has a `return problem`, taken when no task is on a cycle; every other path
\* ends in `return ProblemInstance(...)`
ReturnsInput(name, p) == name = "CycleRemover" /\ CycleTasks(p.tasks) = {}

\* the object map_problem returns: its argument `given` or the new instance `built`
ReturnedObject(name, p, given, built) == IF ReturnsInput(name, p) THEN given ELSE built

RunCycleRemover ==
    /\ MayApply("CycleRemover")
    /\ pc' = "run"
    /\ cur' = CycleRemover_map_problem(cur)
    /\ prev' = MapProblemInput(cur, cur')
    /\ problem' = IF applied = <<>> THEN prev' ELSE problem
    /\ applied' = Append(applied, "CycleRemover")
    /\ ident' = [prev |-> ident.cur, cur |-> ReturnedObject("CycleRemover", cur, ident.cur, Len(applied'))]
    /\ UNCHANGED <<indexVars, budgetVars, checkVars, searchVars>>

RunImpossibleTaskRemover ==
    /\ MayApply("ImpossibleTaskRemover")
    /\ pc' = "run"
    /\ cur' = ImpossibleTaskRemover_map_problem(cur)
    /\ prev' = MapProblemInput(cur, cur')
    /\ problem' = IF applied = <<>> THEN prev' ELSE problem
    /\ applied' = Append(applied, "ImpossibleTaskRemover")
    /\ ident' = [prev |-> ident.cur, cur |-> ReturnedObject("ImpossibleTaskRemover", cur, ident.cur, Len(applied'))]
    /\ UNCHANGED <<indexVars, budgetVars, checkVars, searchVars>>

RunDependencyPruner ==
    /\ MayApply("DependencyPruner")
    /\ pc' = "run"
    /\ cur' = DependencyPruner_map_problem(cur)
    /\ prev' = MapProblemInput(cur, cur')
    /\ problem' = IF applied = <<>> THEN prev' ELSE problem
    /\ applied' = Append(applied, "DependencyPruner")
    /\ ident' = [prev |-> ident.cur, cur |-> ReturnedObject("DependencyPruner", cur, ident.cur, Len(applied'))]
    /\ UNCHANGED <<indexVars, budgetVars, checkVars, searchVars>>

\* whether map_problem of the stage declares the time_limit parameter
DeclaresTimeLimit(name) == name = "ImpossibleTaskRemover"

map_problem(name, p) ==
    IF name = "ImpossibleTaskRemover" THEN ImpossibleTaskRemover_map_problem(p)
    ELSE IF name = "CycleRemover" THEN CycleRemover_map_problem(p)
    ELSE DependencyPruner_map_problem(p)

\* MapProblem.run of stage i of the chain, entered with the outcome r of the
\* stages in front of it: map_problem(problem, time_limit=time_limit), and the
\* next runnable gets the new problem
MapProblem_run(middlewares, i, r) ==
    IF i > Len(middlewares) \/ r.raised # "" THEN r
    ELSE IF ~DeclaresTimeLimit(middlewares[i])
         THEN [raised |-> "TypeError", problem |-> r.problem]
    ELSE [raised |-> "", problem |-> map_problem(middlewares[i], r.problem)]

\* ProblemInstance.assert_continuous_indices: the error it raises, "" for none
assert_continuous_indices(p) ==
    IF Keys(p.tasks) # 0..(p.num_tasks - 1) THEN "ValueError"
    ELSE IF Keys(p.teams) # 0..(p.num_teams - 1) THEN "ValueError"
    ELSE ""

\* the solvers whose run starts with _preprocess and assert_continuous_indices
ArrayIndexed == {"TabuSearchSolver", "TabuGreedySolver"}

\* the chains built in the repository: test_pipeline_class and remover.run with a
\* mock solver, main.py with solver_cls(), and a solver run on its own
RepairPipelines ==
    {[middlewares |-> <<"CycleRemover", "DependencyPruner">>, solver_cls |-> "MockSolver"],
     [middlewares |-> <<"ImpossibleTaskRemover">>, solver_cls |-> "MockSolver"],
     [middlewares |-> <<"ImpossibleTaskRemover", "CycleRemover", "DependencyPruner">>,
      solver_cls |-> "TabuSearchSolver"],
     [middlewares |-> <<>>, solver_cls |-> "TabuSearchSolver"]}

\* Pipeline(middlewares, solver_cls()).run(problem) without a budget, up to the
\* schedule of a mock solver or the _preprocess of an array-indexed one; `stage`
\* is the solver if the chain got to it
RunRepairPipeline(pipeline) ==
    /\ pc = "build"
    /\ \E r1 \in {MapProblem_run(pipeline.middlewares, 1, [raised |-> "", problem |-> problem])} :
       \E r2 \in {MapProblem_run(pipeline.middlewares, 2, r1)} :
       \E r \in {MapProblem_run(pipeline.middlewares, 3, r2)} :
         LET reached == r.raised = ""
             raised == IF ~reached THEN r.raised
                       ELSE IF pipeline.solver_cls \in ArrayIndexed
                            THEN assert_continuous_indices(r.problem)
                       ELSE ""
         IN /\ cur' = r.problem
            /\ stage' = IF reached THEN pipeline.solver_cls ELSE ""
            /\ indexed' = IF reached THEN r.problem ELSE indexed
            \* MockSolver.run returns Schedule(assignments=[])
            /\ schedule' = [raised |-> raised, assignments |-> <<>>]
            /\ pc' = IF raised = "" /\ pipeline.solver_cls \in ArrayIndexed
                     THEN "solve" ELSE "piped"
    /\ UNCHANGED <<problem, prev, applied, ident, inner, budgetVars, checkVars, solver, seed, attempts,
                   current_solution, best_solution, scored, tabu_list, iteration, tabu_tenure, scan,
                   time_budget>>

NextRepair ==
    \/ \E pipeline \in RepairPipelines : RunRepairPipeline(pipeline)
    \/ \E t \in TaskIds, r \in RefIds : AddPredecessor(t, r)
    \/ \E t \in TaskIds, r \in RefIds : AddSuccessor(t, r)
    \/ \E t \in TaskIds : ClearTeams(t)
    \/ RunImpossibleTaskRemover
    \/ RunCycleRemover
    \/ RunDependencyPruner

SpecRepair == InitRepair /\ [][NextRepair]_vars

(***************************************************************************)
(* ContinuousIndexer.run around a wrapped stage.  The input keeps a subset   *)
(* of the tasks of a dependency graph built as parse_input builds it (every *)
(* edge u -> v entered in v.predecessors and u.successors); the lists of    *)
(* the kept tasks still name the tasks left out.  The wrapped stage returns *)
(* any short list of assignments, also of ids outside the relabelled        *)
(* problem.                                                                 *)
(***************************************************************************)
IndexedIds == 1..NumIndexed

DagTask(t) ==
    Task(t, FixtureTask(t).duration,
         SortedSeq({u \in IndexedIds : u < t}),
         SortedSeq({v \in IndexedIds : v > t}),
         FixtureTask(t).compatible_teams)

SparseProblem(ids) ==
    ProblemInstance(Cardinality(ids), 2, [t \in ids |-> DagTask(t)], FixtureTeams)

InitIndexer ==
    /\ problem \in {SparseProblem(ids) : ids \in SUBSET IndexedIds}
    /\ pc = "index"
    /\ prev = problem
    /\ cur = problem
    /\ applied = <<>>
    /\ ident = [prev |-> 0, cur |-> 0]
    /\ IndexerIdle
    /\ BudgetIdle
    /\ SearchIdle
    /\ CheckerIdle

\* lines 40-78: build the maps and the relabelled problem
IndexerMapProblem ==
    /\ pc = "index"
    /\ indexed' = IndexedProblem(problem)
    /\ pc' = "wrapped"
    /\ UNCHANGED <<problem, prev, cur, applied, ident, inner, schedule, budgetVars, checkVars, searchVars>>

StartTimes == {0, 10}

\* the ids a wrapped stage may put in an assignment: those of the problem it
\* was given and one id past them
ReturnedAssignments(p) ==
    {Assignment(t, m, s) : t \in 0..p.num_tasks, m \in 0..p.num_teams, s \in StartTimes}

\* line 81: next_runnable.run returns a Schedule
NextRunnableRun(a) ==
    /\ pc = "wrapped"
    /\ \/ /\ Len(inner) < MaxAssign
          /\ inner' = Append(inner, a)
          /\ pc' = pc
       \/ /\ inner' = inner
          /\ pc' = "unwrap"
    /\ UNCHANGED <<problem, prev, cur, applied, ident, indexed, schedule, budgetVars, checkVars, searchVars>>

\* lines 84-103: map the assignments back
IndexerMapResult ==
    /\ pc = "unwrap"
    /\ schedule' = MapBack(TaskIndexMap(problem), TeamIndexMap(problem), inner, 1, <<>>)
    /\ pc' = "done"
    /\ UNCHANGED <<problem, prev, cur, applied, ident, indexed, inner, budgetVars, checkVars, searchVars>>

NextIndexer ==
    \/ IndexerMapProblem
    \/ \E a \in ReturnedAssignments(indexed) : NextRunnableRun(a)
    \/ IndexerMapResult

SpecIndexer == InitIndexer /\ [][NextIndexer]_vars

(***************************************************************************)
(* Pipeline.run with spying stages: the stages are the middlewares, in     *)
(* order, and the solver last; each records the time_limit it is run with  *)
(* and a middleware passes a time_limit of its choice to next_runnable.    *)
(***************************************************************************)
\* sum(m.time_factor for m in self.middlewares) + solver_factor
RECURSIVE SumFactors(_)

SumFactors(fs) == IF fs = <<>> THEN 0 ELSE Head(fs) + SumFactors(Tail(fs))

\* Pipeline.run: is there a budget to split, and how many seconds
UseBudget(c) == c.total_budget.set \/ c.time_limit.finite
TotalSeconds(c) ==
    IF c.total_budget.set THEN c.total_budget.duration_seconds ELSE c.time_limit.seconds

BudgetShareWhole(factor, total_factor, total_seconds) == fdiv(total_seconds, 1)

\* (factor / total_factor) * total_seconds if total_factor > 0 else 0
BudgetShare(factor, total_factor, total_seconds) ==
    IF total_factor > 0 THEN fmul(fdiv(factor, total_factor), total_seconds) ELSE Zero

BudgetedLimitPassed(budget, time_limit) == time_limit

\* _BudgetedRunnable.run, _BudgetedMiddlewareRunnable.run: the time_limit the
\* wrapped stage is run with
BudgetedLimit(budget, time_limit) == budget

\* _WrappedRunnable.run passes time_limit through
WrappedLimit(time_limit) == time_limit

\* the total budgets tried, in seconds: none, the budget test's, and one that
\* no sum of thirds adds up to
BudgetSeconds == {0, 7, 10}

InitBudget ==
    /\ factors \in [1..NumStages -> 0..MaxFactor]
    /\ kinds \in [1..(NumStages - 1) -> {"MapProblem", "MapResult"}]
    /\ flow = NoFlow
    /\ call \in {[total_budget |-> [set |-> b, duration_seconds |-> IF b THEN s ELSE 0],
                  time_limit |-> [finite |-> f, seconds |-> IF f THEN 10 ELSE 0]]
                    : b \in BOOLEAN, f \in BOOLEAN, s \in BudgetSeconds}
    /\ allotted = <<>>
    /\ passed = <<>>
    /\ received = <<>>
    /\ pc = "pipeline"
    /\ problem = FixtureProblem
    /\ prev = problem
    /\ cur = problem
    /\ applied = <<>>
    /\ ident = [prev |-> 0, cur |-> 0]
    /\ IndexerIdle
    /\ SearchIdle
    /\ CheckerIdle

\* The problems and schedules of the spying stages are told apart by what was
\* done to them: a problem is the list of the map_problem calls it went
\* through, a schedule the problem its solver was run on followed by the
\* map_result calls it went through.
OriginalProblem == <<>>

Solved(given) == [stage |-> "solver", problem |-> given]

\* a call of a stage's method, with the problem and the schedule it was given
Called(i, method, given, got) ==
    [stage |-> i, method |-> method, problem |-> given, result |-> got]

\* a MapProblem that runs next_runnable on the problem it was given
HandedOnUnmapped(kind, i, given) == given

\* what a middleware's run hands to next_runnable.run: map_problem(problem) if
\* it is a MapProblem, the problem it was given if it is a MapResult
HandedOn(kind, i, given) == IF kind = "MapProblem" THEN Append(given, i) ELSE given

\* what a middleware's run returns when next_runnable.run returned got:
\* map_result(problem, got) if it is a MapResult, got if it is a MapProblem
ReturnedUp(kind, i, given, got) ==
    IF kind = "MapResult" THEN Append(got, [stage |-> i, problem |-> given]) ELSE got

\* lines 169-204: wrap the stages, then pipeline.run(problem) with the default
\* time_limit
PipelineRun ==
    /\ pc = "pipeline"
    /\ allotted' = IF UseBudget(call)
                   THEN [i \in 1..Len(factors) |->
                           BudgetShare(factors[i], SumFactors(factors), TotalSeconds(call))]
                   ELSE <<>>
    /\ passed' = <<Inf>>
    /\ flow' = [flow EXCEPT !.handed = <<OriginalProblem>>]
    /\ pc' = "stages"
    /\ UNCHANGED <<factors, call, received, kinds, problem, prev, cur, applied, ident, indexVars,
                   searchVars, checkVars>>

\* the next wrapper's run is called with the time_limit passed down, runs its
\* stage, and the stage (if a middleware) calls next_runnable.run with the same
\* time_limit or a different one
StageRun(forwarded) ==
    /\ pc = "stages"
    /\ LET i == Len(received) + 1
           time_limit == IF UseBudget(call)
                         THEN BudgetedLimit(allotted[i], passed[i])
                         ELSE WrappedLimit(passed[i])
       IN /\ received' = Append(received, time_limit)
          /\ IF i < Len(factors)
             THEN /\ passed' = Append(passed, IF forwarded = "same" THEN time_limit
                                              ELSE IF time_limit = Inf THEN Zero ELSE Inf)
                  /\ flow' = [flow EXCEPT
                         !.handed = Append(@, HandedOn(kinds[i], i, flow.handed[i])),
                         !.calls = IF kinds[i] = "MapProblem"
                                   THEN Append(@, Called(i, "map_problem", flow.handed[i], <<>>))
                                   ELSE @]
                  /\ pc' = pc
             ELSE /\ forwarded = "same"
                  /\ passed' = passed
                  /\ flow' = [flow EXCEPT
                         !.calls = Append(@, Called(i, "run", flow.handed[i], <<>>)),
                         !.result = <<Solved(flow.handed[i])>>,
                         !.level = i - 1]
                  /\ pc' = IF i = 1 THEN "done" ELSE "unwind"
    /\ UNCHANGED <<factors, call, allotted, kinds, problem, prev, cur, applied, ident, indexVars,
                   searchVars, checkVars>>

\* next_runnable.run has returned to the stage at flow.level: a MapResult
\* returns map_result(problem, result) with the problem it was run with, a
\* MapProblem returns the schedule as it is
StageReturn ==
    /\ pc = "unwind"
    /\ LET i == flow.level
       IN /\ flow' = [flow EXCEPT
                 !.calls = IF kinds[i] = "MapResult"
                           THEN Append(@, Called(i, "map_result", flow.handed[i], flow.result))
                           ELSE @,
                 !.result = ReturnedUp(kinds[i], i, flow.handed[i], flow.result),
                 !.level = i - 1]
          /\ pc' = IF i = 1 THEN "done" ELSE pc
    /\ UNCHANGED <<factors, call, allotted, passed, received, kinds, problem, prev, cur, applied,
                   ident, indexVars, searchVars, checkVars>>

NextBudget ==
    \/ PipelineRun
    \/ StageReturn
    \/ \E forwarded \in {"same", "different"} : StageRun(forwarded)

SpecBudget == InitBudget /\ [][NextBudget]_vars

(***************************************************************************)
(* A solver run and one refinement of its schedule.  The instance has the  *)
(* two tasks of the evaluation fixture; each of its four dependency lists  *)
(* is any ascending list of ids (task 2 may also name the absent id 3 as a *)
(* predecessor), so the lists need not mirror each other, and task 2 may   *)
(* have no team.  The instance passes the four repairing middlewares and   *)
(* the TabuSearchSolver; then HillClimbingMiddleware or                    *)
(* TabuSearchMiddleware refines the solver's schedule or a part of it.     *)
(* budget.is_expired() may turn True at any check and stays True.          *)
(***************************************************************************)
SearchTaskIds == {1, 2}

SearchTask(t, predecessors, successors, teamless) ==
    Task(t, FixtureTask(t).duration, SortedSeq(predecessors), SortedSeq(successors),
         IF t \in teamless THEN EmptyDict ELSE FixtureTask(t).compatible_teams)

SearchProblems ==
    {ProblemInstance(2, 2,
                     [t \in SearchTaskIds |-> SearchTask(t, preds[t], succs[t], teamless)],
                     FixtureTeams) :
        preds \in {f \in [SearchTaskIds -> SUBSET (SearchTaskIds \cup {3})] : 3 \notin f[1]},
        succs \in [SearchTaskIds -> SUBSET SearchTaskIds],
        teamless \in SUBSET {2}}

InitSearch ==
    /\ problem \in SearchProblems
    /\ pc = "build"
    /\ prev = problem
    /\ cur = problem
    /\ applied = <<>>
    /\ ident = [prev |-> 0, cur |-> 0]
    /\ IndexerIdle
    /\ BudgetIdle
    /\ SearchIdle
    /\ CheckerIdle

Middlewares ==
    <<"ImpossibleTaskRemover", "CycleRemover", "DependencyPruner", "ContinuousIndexer">>

\* the map_problem calls of the four middlewares, in the order of the pipeline
RepairAndIndex ==
    /\ pc = "build"
    /\ prev' = CycleRemover_map_problem(ImpossibleTaskRemover_map_problem(problem))
    /\ cur' = DependencyPruner_map_problem(prev')
    /\ indexed' = IndexedProblem(cur')
    /\ applied' = Middlewares
    /\ ident' = [prev |-> ReturnedObject("CycleRemover", ImpossibleTaskRemover_map_problem(problem), 1, 2),
                  cur |-> 3]
    /\ pc' = "solve"
    /\ UNCHANGED <<problem, inner, schedule, budgetVars, checkVars, searchVars>>

\* the defaults of the constructors
TabuSearchSolver_tabu_tenure == 10
TabuSearchMiddleware_tabu_tenure == 20
HillClimbing_iterations == 50

\* with TimeBudget(time_limit) as budget: the clock starts
TimeBudget_enter == [started |-> TRUE, expired |-> FALSE]

\* TimeBudget(float("inf")).is_expired() is False at every call
BudgetNeverExpires == received # <<>> /\ received[1] = Inf

\* current_score = self._evaluate(current); best = current; tabu_list = {}
BeginSearch(self, start) ==
    LET decoded == _decode(self, start)
    IN /\ solver' = SelfAfterDecode(self, decoded)
       /\ current_solution' = [start EXCEPT !.fitness = Fitness(self, decoded.assignments)]
       /\ best_solution' = current_solution'
       /\ scored' = decoded.assignments
       /\ tabu_list' = EmptyDict
       /\ iteration' = 0
       /\ time_budget' = TimeBudget_enter
       /\ pc' = "search"

\* TabuSearchSolver(tabu_tenure=tenure).run up to the while-loop; limits holds
\* the time_limit when the run is followed with its budget
TabuSearchSolver_construct_run(tenure, limits) ==
    /\ pc = "solve"
    /\ stage' = "TabuSearchSolver"
    /\ tabu_tenure' = tenure
    /\ scan' = NoScan
    /\ received' = limits
    /\ LET self == _preprocess(indexed)
       IN IF self.tasks_with_teams = <<>>
          THEN /\ solver' = self
               /\ inner' = <<>>
               /\ pc' = "solved"
               /\ UNCHANGED <<current_solution, best_solution, scored, tabu_list, iteration, time_budget>>
          ELSE /\ BeginSearch(self, _generate_initial_solution(self))
               /\ inner' = inner
    /\ UNCHANGED <<problem, prev, cur, applied, ident, indexed, schedule, factors, call, allotted, passed, kinds, flow,
                   checkVars, seed, attempts>>

\* TabuSearchSolver().run: the default tenure, a budget that ends at some check
TabuSearchSolver_run == TabuSearchSolver_construct_run(TabuSearchSolver_tabu_tenure, received)

\* TabuSearchMiddleware.map_result up to the while-loop; the seed is the
\* solver's schedule or a part of it
TabuSearchMiddleware_map_result(kept) ==
    /\ pc = "solved"
    /\ stage' = "TabuSearchMiddleware"
    /\ tabu_tenure' = TabuSearchMiddleware_tabu_tenure
    /\ scan' = NoScan
    /\ seed' = SelectSeq(inner, LAMBDA a : a.task_id \in kept)
    /\ attempts' = attempts
    /\ LET self == _preprocess(indexed)
       IN IF self.tasks_with_teams = <<>>
          THEN /\ solver' = self
               /\ inner' = seed'
               /\ pc' = "refined"
               /\ UNCHANGED <<current_solution, best_solution, scored, tabu_list, iteration, time_budget>>
          ELSE /\ \E start \in SeedSolutions(self, seed') : BeginSearch(self, start)
               /\ inner' = inner
    /\ UNCHANGED <<problem, prev, cur, applied, ident, indexed, schedule, budgetVars, checkVars>>

\* return Schedule(assignments=self._decode(best))
ReturnBest ==
    LET decoded == _decode(solver, best_solution)
    IN /\ inner' = decoded.assignments
       /\ solver' = SelfAfterDecode(solver, decoded)
       /\ pc' = IF stage = "TabuSearchSolver" THEN "solved" ELSE "refined"

\* an entry that ends one pass early
ExpiryOneLess(current_iter, tenure) == current_iter + tenure - 1

\* iteration + self.tabu_tenure
Expiry(current_iter, tenure) == current_iter + tenure

\* a table that holds the accepted move only
MarkedOneWay(best_move) == {best_move}

\* the moves that get the expiry iteration + tabu_tenure: best_move, and for a
\* swap its reverse
Marked(best_move) ==
    IF best_move.move_type = "swap"
    THEN {best_move, Move("swap", best_move.task_id_2, best_move.task_id_1)}
    ELSE {best_move}

\* tabu_list = {m: exp for m, exp in tabu_list.items() if exp > iteration}
CompactKeepingAll(tabu, current_iter) == tabu

Compact(tabu, current_iter) ==
    [m \in {k \in DOMAIN tabu : tabu[k] > current_iter} |-> tabu[m]]

\* one pass of the while-loop, of at most limit passes; the budget check inside
\* the for-loop returns True at neighbour cut, or never when cut is past the
\* last neighbour
TabuPass(limit) ==
    /\ pc = "search"
    /\ ~time_budget.expired
    /\ iteration < limit
    /\ iteration' = iteration + 1
    /\ \E neighbors \in {_get_neighbors(solver, current_solution)} :
       \E cut \in IF BudgetNeverExpires THEN {Len(neighbors) + 1} ELSE 1..(Len(neighbors) + 1) :
       \E chosen \in {SelectNeighbor(neighbors, cut, tabu_list, iteration', best_solution.fitness,
                         [self |-> solver, i |-> 1, found |-> FALSE,
                          best_neighbor |-> current_solution,
                          best_neighbor_score |-> <<sys_maxsize, sys_maxsize, sys_maxsize>>,
                          best_assignments |-> <<>>,
                          best_move |-> Move("", 0, 0)])} :
       LET expiry == Expiry(iteration', tabu_tenure)
           marked == Marked(chosen.best_move)
           updated == [m \in DOMAIN tabu_list \cup marked |->
                          IF m \in marked THEN expiry ELSE tabu_list[m]]
       IN /\ time_budget' = [time_budget EXCEPT !.expired = cut <= Len(neighbors)]
          /\ scan' = [current |-> current_solution, tabu_list |-> tabu_list,
                      best_score |-> best_solution.fitness, best_move |-> chosen.best_move,
                      moves |-> Append(scan.moves, chosen.best_move)]
          /\ IF neighbors = <<>>
             THEN /\ ReturnBest
                  /\ UNCHANGED <<current_solution, best_solution, scored, tabu_list>>
             ELSE IF ~chosen.found
             THEN \E restart \in RandomRestarts(solver) :
                     LET decoded == _decode(chosen.self, restart)
                     IN /\ current_solution' = [restart EXCEPT
                                          !.fitness = Fitness(solver, decoded.assignments)]
                        /\ solver' = SelfAfterDecode(chosen.self, decoded)
                        /\ UNCHANGED <<best_solution, scored, tabu_list, inner, pc>>
             ELSE /\ current_solution' = chosen.best_neighbor
                  /\ best_solution' = TrackIncumbent(best_solution, current_solution')
                  /\ scored' = IF best_solution' = best_solution THEN scored
                               ELSE chosen.best_assignments
                  /\ tabu_list' = IF iteration' % 100 = 0 THEN Compact(updated, iteration')
                                  ELSE updated
                  /\ solver' = chosen.self
                  /\ UNCHANGED <<inner, pc>>
    /\ UNCHANGED <<problem, prev, cur, applied, ident, indexed, schedule, budgetVars, checkVars, stage, seed,
                   attempts, tabu_tenure>>

TabuIterate == TabuPass(MaxIter)

\* the while-loop ends: budget.is_expired() returned True
TabuFinish ==
    /\ pc = "search"
    /\ ~BudgetNeverExpires
    /\ time_budget' = [time_budget EXCEPT !.expired = TRUE]
    /\ ReturnBest
    /\ UNCHANGED <<problem, prev, cur, applied, ident, indexed, schedule, budgetVars, checkVars,
                   stage, seed, attempts, current_solution, best_solution, scored, tabu_list, iteration, tabu_tenure, scan>>

\* HillClimbingMiddleware.map_result up to the loop
HillClimbing_map_result(kept) ==
    /\ pc = "solved"
    /\ stage' = "HillClimbingMiddleware"
    /\ seed' = SelectSeq(inner, LAMBDA a : a.task_id \in kept)
    /\ attempts' = attempts
    /\ IF seed' = <<>>
       THEN /\ inner' = seed'
            /\ pc' = "refined"
            /\ UNCHANGED <<current_solution, scored, iteration, tabu_tenure, scan, time_budget>>
       ELSE /\ \E start \in HillSeeds(indexed, seed') :
                 /\ current_solution' = start
                 /\ scored' = HillClimbing_decode(indexed, start.task_order,
                                                  start.team_assignment)
            /\ iteration' = 0
            /\ tabu_tenure' = tabu_tenure
            /\ scan' = scan
            /\ time_budget' = TimeBudget_enter
            /\ pc' = "climb"
            /\ inner' = inner
    /\ UNCHANGED <<problem, prev, cur, applied, ident, indexed, schedule, budgetVars, checkVars,
                   solver, best_solution, tabu_list>>

\* one pass of "for _ in range(self.iterations)" that finds an improvement
HillStep ==
    /\ pc = "climb"
    /\ ~time_budget.expired
    /\ iteration < HillClimbing_iterations
    /\ iteration' = iteration + 1
    /\ \E next \in HillImprovements(indexed, current_solution) : current_solution' = next
    /\ UNCHANGED <<problem, prev, cur, applied, ident, indexVars, budgetVars, checkVars,
                   solver, stage, seed, attempts, best_solution, scored, tabu_list, tabu_tenure, scan, time_budget, pc>>

\* the loop ends (no improvement, budget expired, or iterations used up)
HillFinish ==
    /\ pc = "climb"
    /\ time_budget' = [time_budget EXCEPT !.expired =
                     @ \/ (HillImprovements(indexed, current_solution) # {}
                            /\ iteration < HillClimbing_iterations)]
    /\ inner' = HillClimbing_decode(indexed, current_solution.task_order, current_solution.team_assignment)
    /\ pc' = "refined"
    /\ UNCHANGED <<problem, prev, cur, applied, ident, indexed, schedule, budgetVars, checkVars,
                   solver, stage, seed, attempts, current_solution, best_solution, scored, tabu_list, iteration, tabu_tenure, scan>>

NextSearch ==
    \/ RepairAndIndex
    \/ TabuSearchSolver_run
    \/ TabuIterate
    \/ TabuFinish
    \/ \E kept \in SUBSET (0..1) : TabuSearchMiddleware_map_result(kept)
    \/ \E kept \in SUBSET (0..1) : HillClimbing_map_result(kept)
    \/ HillStep
    \/ HillFinish

SpecSearch == InitSearch /\ [][NextSearch]_vars

(***************************************************************************)
(* TabuSearchSolver.run on its own, for more than a hundred passes of its  *)
(* loop: three to five tasks with continuous ids, one to three of them     *)
(* with a choice of team, with or without dependencies, a tenure given to  *)
(* the constructor and the default time_limit, float("inf").               *)
(***************************************************************************)
\* the evaluation fixture with a third task; the tasks of duo run on team 2 too
TabuTask(t, duo, predecessors, successors) ==
    Task(t, FixtureTask(t).duration, predecessors, successors,
         IF t \in duo THEN (1 :> 15) @@ (2 :> 5) ELSE FixtureTask(t).compatible_teams)

\* the dependency lists parse_input builds from the edges (u, v)
TabuEdges == {{}, {<<1, 2>>}, {<<3, 2>>}, {<<2, 1>>, <<1, 3>>}}

TabuProblems ==
    {IndexedProblem(ProblemInstance(n, 2,
         [t \in 1..n |->
             TabuTask(t, duo,
                      SortedSeq({e[1] : e \in {d \in edges : d[2] = t}}),
                      SortedSeq({e[2] : e \in {d \in edges : d[1] = t}}))],
         FixtureTeams)) :
        n \in {3, 5}, duo \in {{}, {2}, {2, 3}}, edges \in TabuEdges}

\* four tasks of duration 10, 10, 10 and 20, task 0 after task 1, tasks 1 and 2
\* with a choice of team: here a forbidden swap leads to a new best solution
AspirationFixture ==
    ProblemInstance(4, 2,
        (0 :> Task(0, 10, <<1>>, <<>>, (0 :> 10)))
        @@ (1 :> Task(1, 10, <<>>, <<0>>, (0 :> 10) @@ (1 :> 15)))
        @@ (2 :> Task(2, 10, <<>>, <<>>, (0 :> 10) @@ (1 :> 10)))
        @@ (3 :> Task(3, 20, <<>>, <<>>, (0 :> 15))),
        (0 :> Team(0, 0)) @@ (1 :> Team(1, 5)))

\* the tabu_tenure values given to the constructor: the default on five tasks,
\* short ones on three and four
TabuTenures(p) ==
    IF p.num_tasks = 5 THEN {TabuSearchSolver_tabu_tenure}
    ELSE IF p.num_tasks = 4 THEN {4}
    ELSE {2, 3, 4}

InitTabu ==
    /\ problem \in TabuProblems \cup {AspirationFixture}
    /\ pc = "solve"
    /\ prev = problem
    /\ cur = problem
    /\ applied = <<>>
    /\ ident = [prev |-> 0, cur |-> 0]
    /\ indexed = problem
    /\ inner = <<>>
    /\ schedule = NoSchedule
    /\ BudgetIdle
    /\ SearchIdle
    /\ CheckerIdle

TabuLongIterate == TabuPass(MaxRun)

NextTabu ==
    \/ \E tenure \in TabuTenures(indexed) : TabuSearchSolver_construct_run(tenure, <<Inf>>)
    \/ TabuLongIterate

SpecTabu == InitTabu /\ [][NextTabu]_vars

(***************************************************************************)
(* validate_schedule and the check at the end of Pipeline.run: the         *)
(* evaluation fixture, with or without the dependency of task 2 on task 1, *)
(* with task 1 of duration 10 or 0, and any schedule a stage may hand back.*)
(***************************************************************************)
\* test_evaluation.setUp; test_team_overlap clears the predecessors of task 2
EvaluationInstance(depends) ==
    ProblemInstance(2, 2,
        (1 :> Task(1, 10, <<>>, <<2>>, (1 :> 5) @@ (2 :> 10)))
        @@ (2 :> Task(2, 20, IF depends THEN <<1>> ELSE <<>>, <<>>, (1 :> 15))),
        FixtureTeams)

\* ids 3 name no task and no team
AssignedIds == 1..3
AssignedStarts == {0, 5, 10}

\* tasks[i].duration = d, as parse_input sets the duration it read
WithDuration(instance, i, d) == [instance EXCEPT !.tasks[i].duration = d]

\* the durations of task 1: the fixture's, and none
FirstDurations == {0, 10}

InitChecker ==
    /\ \E depends \in BOOLEAN, d \in FirstDurations :
          problem = WithDuration(EvaluationInstance(depends), 1, d)
    /\ pc = "assign"
    /\ prev = problem
    /\ cur = problem
    /\ applied = <<>>
    /\ ident = [prev |-> 0, cur |-> 0]
    /\ IndexerIdle
    /\ BudgetIdle
    /\ SearchIdle
    /\ CheckerIdle

\* Schedule(assignments=[..., Assignment(task_id, team_id, start_time)])
Assign(task_id, team_id, start_time) ==
    /\ pc = "assign"
    /\ Len(inner) < MaxAssign
    /\ inner' = Append(inner, Assignment(task_id, team_id, start_time))
    /\ UNCHANGED <<repairVars, indexed, schedule, budgetVars, searchVars, checkVars>>

\* result = validate_schedule(self.instance, schedule)
ValidateSchedule ==
    /\ pc = "assign"
    /\ pc' = "validated"
    /\ result' = validate_schedule(problem, inner)
    /\ UNCHANGED <<problem, prev, cur, applied, ident, indexVars, budgetVars, searchVars, graded>>

\* score = grade_schedule(self.instance, schedule), after the validation as in
\* test_valid_schedule
GradeSchedule ==
    /\ pc = "validated"
    /\ pc' = "graded"
    /\ graded' = grade_schedule(problem, inner)
    /\ UNCHANGED <<problem, prev, cur, applied, ident, indexVars, budgetVars, searchVars, result>>

\* a Pipeline.run that hands back no assignment when the check fails
ReturnedIfValid(assignments, validation) ==
    IF validation.is_valid THEN assignments ELSE <<>>

\* what Pipeline.run returns after the check: `return schedule`
Returned(assignments, validation) == assignments

\* the end of Pipeline.run: the outermost stage returned `inner`; with check the
\* schedule is validated against the problem given to the pipeline and the
\* errors are printed to stderr
PipelineReturn(check) ==
    /\ pc = "assign"
    /\ pc' = IF check THEN "checked" ELSE "unchecked"
    /\ result' = IF check THEN validate_schedule(problem, inner) ELSE result
    /\ schedule' = [raised |-> "", assignments |-> Returned(inner, result')]
    /\ UNCHANGED <<problem, prev, cur, applied, ident, indexed, inner, budgetVars, searchVars, graded>>

NextChecker ==
    \/ \E task_id \in AssignedIds, team_id \in AssignedIds, start_time \in AssignedStarts :
          Assign(task_id, team_id, start_time)
    \/ ValidateSchedule
    \/ GradeSchedule
    \/ \E check \in BOOLEAN : PipelineReturn(check)

SpecChecker == InitChecker /\ [][NextChecker]_vars

(***************************************************************************)
(* _decode and _evaluate on their own: three tasks with continuous ids,    *)
(* dependencies as parse_input adds them or one-sided as in the fixtures,  *)
(* tasks without a team, and any task order and team choice.               *)
(***************************************************************************)
\* dependencies (u, v) read by parse_input
MaxEdges == 2

DecodeIds == 0..2

\* the evaluation fixture with a third task, relabelled from 0
DecodeFixture ==
    IndexedProblem(ProblemInstance(3, 2, [t \in 1..3 |-> FixtureTask(t)], FixtureTeams))

InitDecode ==
    /\ problem = DecodeFixture
    /\ pc = "build"
    /\ prev = problem
    /\ cur = problem
    /\ applied = <<>>
    /\ ident = [prev |-> 0, cur |-> 0]
    /\ IndexerIdle
    /\ BudgetIdle
    /\ SearchIdle
    /\ CheckerIdle

\* tasks[v].predecessors.append(u); tasks[u].successors.append(v)
AddDependency(u, v) ==
    /\ pc = "build"
    /\ NumRefs(problem) + 2 <= 2 * MaxEdges
    /\ problem' = [problem EXCEPT !.tasks[v].predecessors = Append(@, u),
                                  !.tasks[u].successors = Append(@, v)]
    /\ cur' = problem'
    /\ prev' = problem'
    /\ UNCHANGED <<pc, applied, ident, indexVars, budgetVars, checkVars, searchVars>>

\* _preprocess(problem), then _evaluate of a fresh solution: _decode, and the
\* fitness stored on the solution
Decode ==
    /\ pc = "build"
    /\ pc' = "decoded"
    /\ stage' = "TabuSearchSolver"
    /\ \E self \in {_preprocess(problem)} :
       \E solution \in RandomRestarts(self) :
       \E decoded \in {_decode(self, solution)} :
         /\ solver' = SelfAfterDecode(self, decoded)
         /\ inner' = decoded.assignments
         /\ current_solution' = [solution EXCEPT !.fitness = Fitness(self, decoded.assignments)]
    /\ UNCHANGED <<problem, prev, cur, applied, ident, indexed, schedule, budgetVars, checkVars,
                   seed, attempts, best_solution, scored, tabu_list, iteration, tabu_tenure, scan, time_budget>>

\* _preprocess(problem), then _generate_initial_solution()
GenerateInitial ==
    /\ pc = "build"
    /\ pc' = "generated"
    /\ stage' = "TabuSearchSolver"
    /\ solver' = _preprocess(problem)
    /\ current_solution' = _generate_initial_solution(solver')
    /\ UNCHANGED <<problem, prev, cur, applied, ident, indexVars, budgetVars, checkVars,
                   seed, attempts, best_solution, scored, tabu_list, iteration, tabu_tenure, scan, time_budget>>

NextDecode ==
    \/ GenerateInitial
    \/ \E u \in DecodeIds : \E v \in DecodeIds \ {u} : AddDependency(u, v)
    \/ \E t \in DecodeIds : \E s \in DecodeIds \ {t} : AddSuccessor(t, s)
    \/ \E t \in DecodeIds : ClearTeams(t)
    \/ Decode

SpecDecode == InitDecode /\ [][NextDecode]_vars

(***************************************************************************)
(* SimulatedAnnealingRefiner.map_result (middleware/simulated_annealing.py)*)
(* on the fixture of its test and on the evaluation fixture, seeded with a *)
(* schedule of compatible teams, with and without a time limit.            *)
(***************************************************************************)
\* one pass of "for task_id in pending"; the loop state is bound once per
\* step (st \in {state}), so that no step is computed again by a later one
RECURSIVE AnnealPass(_, _, _, _, _)

AnnealPass(p, team_assignment, pending, i, state) ==
    IF i > Len(pending) THEN state
    ELSE CHOOSE done \in {
           LET task_id == pending[i]
               task == p.tasks[task_id]
               preds_ready == \A k \in 1..Len(task.predecessors) :
                                  task.predecessors[k] \in DOMAIN st.scheduled_finishes
               preds_finish_time ==
                   PredsCompleteTime(task.predecessors, 1, st.scheduled_finishes, 0)
               team_id == team_assignment[task_id]
               start_time == Max2(st.team_available[team_id], preds_finish_time)
               finish_time == start_time + task.duration
           IN AnnealPass(p, team_assignment, pending, i + 1,
                  IF ~preds_ready THEN [st EXCEPT !.next_pending = Append(@, task_id)]
                  ELSE [scheduled_finishes |->
                            [t \in DOMAIN st.scheduled_finishes \cup {task_id} |->
                                IF t = task_id THEN finish_time
                                ELSE st.scheduled_finishes[t]],
                        team_available |->
                            [st.team_available EXCEPT ![team_id] = finish_time],
                        assignments |-> Append(st.assignments,
                                               Assignment(task_id, team_id, start_time)),
                        next_pending |-> st.next_pending,
                        progress |-> TRUE]) : st \in {state}} : TRUE

\* while pending
RECURSIVE AnnealDecodeLoop(_, _, _, _)

AnnealDecodeLoop(p, team_assignment, pending, state) ==
    IF pending = <<>> THEN state.assignments
    ELSE CHOOSE assignments \in {
           IF ~pass.progress THEN pass.assignments
           ELSE AnnealDecodeLoop(p, team_assignment, pass.next_pending, pass) :
             pass \in {AnnealPass(p, team_assignment, pending, 1,
                           [state EXCEPT !.next_pending = <<>>, !.progress = FALSE])}} : TRUE

SimulatedAnnealing_decode(p, task_order, team_assignment) ==
    AnnealDecodeLoop(p, team_assignment, task_order,
                     [scheduled_finishes |-> EmptyDict,
                      team_available |-> [m \in Keys(p.teams) |-> p.teams[m].available_from],
                      assignments |-> <<>>,
                      next_pending |-> <<>>,
                      progress |-> FALSE])

\* the loop of _evaluate over the assignments; every team of a state of this
\* model is compatible, so .get never falls back to 10**12
RECURSIVE AnnealFitnessLoop(_, _, _, _)

AnnealFitnessLoop(p, assignments, i, acc) ==
    IF i > Len(assignments) THEN acc
    ELSE LET a == assignments[i]
             task == p.tasks[a.task_id]
         IN AnnealFitnessLoop(p, assignments, i + 1,
                <<acc[1], Max2(acc[2], a.start_time + task.duration),
                  acc[3] + task.compatible_teams[a.team_id]>>)

\* the fitness _evaluate returns with the assignments
SimulatedAnnealing_evaluate(p, task_order, team_assignment) ==
    LET assignments == SimulatedAnnealing_decode(p, task_order, team_assignment)
    IN IF assignments = <<>> THEN <<0, sys_maxsize, sys_maxsize>>
       ELSE AnnealFitnessLoop(p, assignments, 1, <<-Len(assignments), 0, 0>>)

\* neg_count * 1e12 + makespan * 1e6 + cost, kept as its three coefficients:
\* the sum is exact in a float for the makespans and costs of this model
_calculate_energy(fitness) == [e12 |-> fitness[1], e6 |-> fitness[2], e0 |-> fitness[3]]

\* delta_e = neighbor_energy - current_energy, as "<", "=", ">" against 0; with
\* makespans and costs below 10**6 (or both sys.maxsize) the first coefficient
\* that differs decides
DeltaSign(neighbor_energy, current_energy) ==
    LET n == <<neighbor_energy.e12, neighbor_energy.e6, neighbor_energy.e0>>
        c == <<current_energy.e12, current_energy.e6, current_energy.e0>>
    IN IF LexLess(n, c) THEN "<" ELSE IF n = c THEN "=" ELSE ">"

\* random.random() < math.exp(-delta_e / temperature) for delta_e >= 0 and a
\* temperature of at most initial_temp = 1000.0: always at delta_e = 0, never
\* when the makespan or the count is worse (the exponential underflows to 0.0),
\* either way when only the cost is worse
MetropolisDraws(neighbor_energy, current_energy) ==
    IF DeltaSign(neighbor_energy, current_energy) = "=" THEN {TRUE}
    ELSE IF neighbor_energy.e12 = current_energy.e12 /\ neighbor_energy.e6 = current_energy.e6
         THEN BOOLEAN
    ELSE {FALSE}

\* _schedule_to_state: every outcome of the shuffle and of the team choices
AnnealStates(p, assignments) ==
    LET sorted_assignments == SortedByStart(assignments)
        task_order == [i \in 1..Len(sorted_assignments) |-> sorted_assignments[i].task_id]
        all_task_ids == {t \in Keys(p.tasks) : p.tasks[t].compatible_teams # EmptyDict}
        missing_ids == SortedSeq(all_task_ids \ Range(task_order))
        seeded == [t \in Range(task_order) |->
                     LET hits == {i \in 1..Len(sorted_assignments) :
                                     sorted_assignments[i].task_id = t}
                     IN sorted_assignments[CHOOSE i \in hits : \A j \in hits : j <= i].team_id]
    IN {[task_order |-> task_order \o o, team_assignment |-> seeded @@ ta] :
           o \in Shuffles(missing_ids),
           ta \in {f \in [Range(missing_ids) -> Keys(p.teams)] :
                     \A t \in Range(missing_ids) : f[t] \in Keys(p.tasks[t].compatible_teams)}}

\* _mutate: every neighbour the random draws can produce, the unchanged state
\* included (a task with one compatible team was picked)
AnnealNeighbors(p, order, teams) ==
    LET n == Len(order)
        swaps == IF n >= 2
                 THEN {[task_order |-> [order EXCEPT ![c[1]] = order[c[2]],
                                                     ![c[2]] = order[c[1]]],
                        team_assignment |-> teams] :
                          c \in {d \in (1..n) \X (1..n) : d[1] # d[2]}}
                 ELSE {}
        moves == UNION {LET compat == Keys(p.tasks[tid].compatible_teams)
                        IN IF Cardinality(compat) > 1
                           THEN {[task_order |-> order,
                                  team_assignment |-> [teams EXCEPT ![tid] = m]] :
                                    m \in compat \ {teams[tid]}}
                           ELSE {[task_order |-> order, team_assignment |-> teams]} :
                        tid \in DOMAIN teams}
    IN swaps \cup moves

\* test_max_iterations_fallback: one task, one team
AnnealFixture ==
    ProblemInstance(1, 1, (1 :> Task(1, 10, <<>>, <<>>, (1 :> 10))), (1 :> Team(1, 0)))

\* schedules of different tasks on compatible teams, as a stage hands them on
AnnealSeeds(p) ==
    LET one == {Assignment(t, m, b) : t \in Keys(p.tasks), m \in Keys(p.teams),
                                      b \in AssignedStarts}
        fits(a) == a.team_id \in Keys(p.tasks[a.task_id].compatible_teams)
    IN {<<>>} \cup {<<a>> : a \in {x \in one : fits(x)}}
              \cup {<<a, b>> : a \in {x \in one : fits(x) /\ x.task_id = 1},
                               b \in {x \in one : fits(x) /\ x.task_id = 2
                                                   /\ x.start_time >= 10}}

InitAnneal ==
    /\ problem \in {AnnealFixture, EvaluationInstance(TRUE), EvaluationInstance(FALSE)}
    /\ pc = "solved"
    /\ prev = problem
    /\ cur = problem
    /\ applied = <<>>
    /\ ident = [prev |-> 0, cur |-> 0]
    /\ indexed = problem
    /\ inner \in AnnealSeeds(problem)
    /\ schedule = NoSchedule
    /\ BudgetIdle
    /\ SearchIdle
    /\ CheckerIdle

\* the time_limit values map_result is called with: float("inf") (the default)
\* and 1.0, the float with the digits 1000... and the exponent 1 - Precision
AnnealTimeLimits ==
    {Inf, [m |-> [i \in 1..Precision |-> IF i = 1 THEN 1 ELSE 0], e |-> 1 - Precision]}

\* whether the while-loop looks at the budget: time_limit != float("inf")
use_time_limit == received # <<>> /\ received[1] # Inf

\* map_result up to the while-loop: the state lifted from the schedule, its
\* energy, best = current, and the budget entered
SimulatedAnnealing_map_result(time_limit) ==
    /\ pc = "solved"
    /\ stage' = "SimulatedAnnealingRefiner"
    /\ seed' = inner
    /\ attempts' = attempts
    /\ received' = <<time_limit>>
    /\ \E start \in AnnealStates(indexed, inner) :
       \E fitness \in {SimulatedAnnealing_evaluate(indexed, start.task_order,
                                                   start.team_assignment)} :
         /\ current_solution' = Solution(start.task_order, start.team_assignment,
                                         _calculate_energy(fitness))
         /\ best_solution' = current_solution'
    /\ time_budget' = TimeBudget_enter
    /\ pc' = "anneal"
    /\ UNCHANGED <<problem, prev, cur, applied, ident, indexVars, factors, call, allotted, kinds, flow,
                   passed, checkVars,
                   solver, scored, tabu_list, iteration, tabu_tenure, scan>>

\* the clock of a finite budget runs out
AnnealBudgetExpires ==
    /\ pc = "anneal"
    /\ use_time_limit
    /\ ~time_budget.expired
    /\ time_budget' = [time_budget EXCEPT !.expired = TRUE]
    /\ UNCHANGED <<repairVars, indexVars, budgetVars, checkVars, stage, solver, seed, attempts,
                   current_solution, best_solution, scored, tabu_list, iteration, tabu_tenure, scan>>

\* one pass of "while True" that does not break: mutate, evaluate, accept or
\* not, track the best; `hot` is temperature > 1e-10, which holds at
\* initial_temp and may fail once the remaining time is nearly used up
AnnealIterate(hot) ==
    /\ pc = "anneal"
    /\ ~(use_time_limit /\ time_budget.expired)
    /\ hot \/ use_time_limit
    /\ \E neighbor \in AnnealNeighbors(indexed, current_solution.task_order,
                                       current_solution.team_assignment) :
       \E neighbor_energy \in {_calculate_energy(
               SimulatedAnnealing_evaluate(indexed, neighbor.task_order,
                                           neighbor.team_assignment))} :
       \E accept \in IF DeltaSign(neighbor_energy, current_solution.fitness) = "<"
                     THEN {TRUE}
                     ELSE IF hot
                          THEN MetropolisDraws(neighbor_energy, current_solution.fitness)
                          ELSE {FALSE} :
         /\ current_solution' =
                IF accept
                THEN Solution(neighbor.task_order, neighbor.team_assignment, neighbor_energy)
                ELSE current_solution
         /\ best_solution' =
                IF accept /\ DeltaSign(neighbor_energy, best_solution.fitness) = "<"
                THEN current_solution'
                ELSE best_solution
    /\ UNCHANGED <<repairVars, indexVars, budgetVars, checkVars, stage, solver, seed, attempts,
                   scored, tabu_list, iteration, tabu_tenure, scan, time_budget>>

\* the break of the loop, which is taken only under "if use_time_limit", and
\* the decode of the best state into the returned Schedule
AnnealFinish ==
    /\ pc = "anneal"
    /\ use_time_limit
    /\ time_budget.expired
    /\ inner' = SimulatedAnnealing_decode(indexed, best_solution.task_order,
                                          best_solution.team_assignment)
    /\ pc' = "refined"
    /\ UNCHANGED <<problem, prev, cur, applied, ident, indexed, schedule, budgetVars,
                   checkVars, searchVars>>

NextAnneal ==
    \/ \E time_limit \in AnnealTimeLimits : SimulatedAnnealing_map_result(time_limit)
    \/ AnnealBudgetExpires
    \/ \E hot \in BOOLEAN : AnnealIterate(hot)
    \/ AnnealFinish

SpecAnneal == InitAnneal /\ [][NextAnneal]_vars

\* the interpreter keeps executing the loop, and the clock of a budget that
\* has started keeps running
SpecAnnealFair ==
    /\ SpecAnneal
    /\ WF_vars(\E hot \in BOOLEAN : AnnealIterate(hot))
    /\ WF_vars(AnnealBudgetExpires)
    /\ WF_vars(AnnealFinish)
    /\ WF_vars(\E time_limit \in AnnealTimeLimits : SimulatedAnnealing_map_result(time_limit))

(***************************************************************************)
(* LocalSearchMiddleware (middleware/local_search.py): the fixtures of its *)
(* test with one or two tasks, two or three compatible teams, a late team, *)
(* and a dependency entered on both sides or on the predecessor side only. *)
(***************************************************************************)
\* max(a.start_time + duration for a in schedule.assignments)
calculate_makespan(p, assignments) ==
    IF assignments = <<>> THEN 0
    ELSE LET ends == {assignments[i].start_time + p.tasks[assignments[i].task_id].duration :
                         i \in 1..Len(assignments)}
         IN CHOOSE e \in ends : \A f \in ends : f <= e

\* assignment_map: one entry per task id, at the place of its first
\* assignment and with the values of its last one
AssignmentMap(assignments) ==
    LET first == SelectSeq([i \in 1..Len(assignments) |-> i],
                     LAMBDA i : \A j \in 1..(i - 1) :
                                    assignments[j].task_id # assignments[i].task_id)
        last(t) == CHOOSE i \in 1..Len(assignments) :
                       /\ assignments[i].task_id = t
                       /\ \A j \in (i + 1)..Len(assignments) : assignments[j].task_id # t
    IN [k \in 1..Len(first) |-> assignments[last(assignments[first[k]].task_id)]]

\* the entry of a task in assignment_map
EntryOf(assignment_map, task_id) ==
    assignment_map[CHOOSE k \in 1..Len(assignment_map) :
                       assignment_map[k].task_id = task_id]

\* the sort key of the outer loop: tasks[t].compatible_teams.get(team_id, 0)
AssignedCost(p, a) ==
    LET costs == p.tasks[a.task_id].compatible_teams
    IN IF a.team_id \in Keys(costs) THEN costs[a.team_id] ELSE 0

\* sorted(task_ids_in_schedule, key=-cost): stable, the dearest first
RECURSIVE SortedByCost(_, _)

SortedByCost(p, entries) ==
    IF entries = <<>> THEN <<>>
    ELSE LET rest == SortedByCost(p, Front(entries))
             a == Last(entries)
             before == SelectSeq(rest, LAMBDA b : AssignedCost(p, b) >= AssignedCost(p, a))
             after == SelectSeq(rest, LAMBDA b : AssignedCost(p, b) < AssignedCost(p, a))
         IN before \o <<a>> \o after

\* "for s_id in task.successors" of recompute_schedule; the queue is sorted by
\* the start times the entries hold at that moment
RECURSIVE RecomputeSuccs(_, _, _, _)

RecomputeSuccs(succs, i, scheduled_task_ids, state) ==
    IF i > Len(succs) THEN state
    ELSE CHOOSE done \in {
           LET s_id == succs[i]
               deg == st.in_degree[s_id] - 1
               queue == Append(st.ready_queue, s_id)
               sorted == SortedByStart([k \in 1..Len(queue) |->
                                           EntryOf(st.assignment_map, queue[k])])
           IN RecomputeSuccs(succs, i + 1, scheduled_task_ids,
                  IF s_id \notin scheduled_task_ids THEN st
                  ELSE [st EXCEPT !.in_degree[s_id] = deg,
                                  !.ready_queue =
                                      IF deg = 0
                                      THEN [k \in 1..Len(sorted) |-> sorted[k].task_id]
                                      ELSE @]) : st \in {state}} : TRUE

\* "while ready_queue" of recompute_schedule
RECURSIVE RecomputeLoop(_, _, _)

RecomputeLoop(p, scheduled_task_ids, state) ==
    IF state.ready_queue = <<>> THEN state
    ELSE CHOOSE done \in {
           LET task_id == Head(st.ready_queue)
               task == p.tasks[task_id]
               assignment == EntryOf(st.assignment_map, task_id)
               earliest_start_by_deps ==
                   PredsCompleteTime(
                       SelectSeq(task.predecessors, LAMBDA p_id : p_id \in scheduled_task_ids),
                       1, st.task_finish_time, 0)
               earliest_start_by_team == st.team_free_time[assignment.team_id]
               start_time == Max2(earliest_start_by_deps, earliest_start_by_team)
               finish_time == start_time + task.duration
           IN RecomputeLoop(p, scheduled_task_ids,
                  RecomputeSuccs(task.successors, 1, scheduled_task_ids,
                      [assignment_map |->
                           [k \in 1..Len(st.assignment_map) |->
                               IF st.assignment_map[k].task_id = task_id
                               THEN [st.assignment_map[k] EXCEPT !.start_time = start_time]
                               ELSE st.assignment_map[k]],
                       in_degree |-> st.in_degree,
                       ready_queue |-> Tail(st.ready_queue),
                       task_finish_time |->
                           [t \in DOMAIN st.task_finish_time \cup {task_id} |->
                               IF t = task_id THEN finish_time ELSE st.task_finish_time[t]],
                       team_free_time |->
                           [st.team_free_time EXCEPT ![assignment.team_id] = finish_time],
                       max_finish |-> Max2(st.max_finish, finish_time),
                       processed_count |-> st.processed_count + 1])) :
             st \in {state}} : TRUE

\* recompute_schedule: the start times it wrote into assignment_map, and the
\* pair (max_finish, valid) it returns
recompute_schedule(p, assignment_map) ==
    LET scheduled_task_ids == {assignment_map[k].task_id : k \in 1..Len(assignment_map)}
        in_degree == [t_id \in scheduled_task_ids |->
                        Len(SelectSeq(p.tasks[t_id].predecessors,
                                      LAMBDA p_id : p_id \in scheduled_task_ids))]
        ready == SortedByStart(
                     LET ids == SortedSeq({t \in scheduled_task_ids : in_degree[t] = 0})
                     IN [k \in 1..Len(ids) |-> EntryOf(assignment_map, ids[k])])
        done == RecomputeLoop(p, scheduled_task_ids,
                    [assignment_map |-> assignment_map,
                     in_degree |-> in_degree,
                     ready_queue |-> [k \in 1..Len(ready) |-> ready[k].task_id],
                     task_finish_time |-> EmptyDict,
                     team_free_time |-> [m \in Keys(p.teams) |-> p.teams[m].available_from],
                     max_finish |-> 0,
                     processed_count |-> 0])
        valid == done.processed_count = Cardinality(scheduled_task_ids)
    IN [assignment_map |-> done.assignment_map,
        new_makespan |-> IF valid THEN done.max_finish ELSE 0,
        valid |-> valid,
        processed_count |-> done.processed_count]

\* a local search that keeps a rejected change
KeepRejected(backup, changed) == changed

\* the else-branch: the team and every start time as before the attempt
Reverted(backup, changed) == backup

\* one candidate team of one task: the change, the recomputation, and the map
\* that is kept; `loop` holds assignment_map, improved, current_cost and the
\* record of the attempts
TryTeam(p, current_makespan, task_id, cand_team, loop) ==
    LET task == p.tasks[task_id]
        cand_cost == task.compatible_teams[cand_team]
        changed == [k \in 1..Len(loop.assignment_map) |->
                       IF loop.assignment_map[k].task_id = task_id
                       THEN [loop.assignment_map[k] EXCEPT !.team_id = cand_team]
                       ELSE loop.assignment_map[k]]
    IN IF cand_team = loop.current_team \/ ~(cand_cost < loop.current_cost) THEN loop
       ELSE CHOOSE next \in {
              LET kept == recomputed.valid /\ recomputed.new_makespan <= current_makespan
                  after == IF kept THEN recomputed.assignment_map
                           ELSE Reverted(loop.assignment_map, recomputed.assignment_map)
              IN [assignment_map |-> after,
                  improved |-> loop.improved \/ kept,
                  current_team |-> loop.current_team,
                  current_cost |-> IF kept THEN cand_cost ELSE loop.current_cost,
                  attempts |-> Append(loop.attempts,
                      [task_id |-> task_id, cand_team |-> cand_team,
                       before |-> loop.assignment_map,
                       new_makespan |-> recomputed.new_makespan,
                       processed_count |-> recomputed.processed_count,
                       after |-> after])] :
              recomputed \in {recompute_schedule(p, changed)}} : TRUE

\* "for cand_team, cand_cost in task.compatible_teams.items()", in key order
RECURSIVE TryTeams(_, _, _, _, _)

TryTeams(p, current_makespan, task_id, cand_teams, loop) ==
    IF cand_teams = <<>> THEN loop
    ELSE CHOOSE done \in {
           TryTeams(p, current_makespan, task_id, Tail(cand_teams), next) :
             next \in {TryTeam(p, current_makespan, task_id, Head(cand_teams), loop)}} : TRUE

\* "for task_id in sorted_task_ids": current_team and current_cost are read
\* once per task, before its candidates are tried
RECURSIVE TryTasks(_, _, _, _)

TryTasks(p, current_makespan, sorted_task_ids, loop) ==
    IF sorted_task_ids = <<>> THEN loop
    ELSE CHOOSE done \in {
           TryTasks(p, current_makespan, Tail(sorted_task_ids), next) :
             next \in {LET task_id == Head(sorted_task_ids)
                           current_assignment == EntryOf(loop.assignment_map, task_id)
                           costs == p.tasks[task_id].compatible_teams
                       IN TryTeams(p, current_makespan, task_id, SortedSeq(Keys(costs)),
                              [loop EXCEPT !.current_team = current_assignment.team_id,
                                           !.current_cost =
                                               costs[current_assignment.team_id]])}} : TRUE

\* "while improved"
RECURSIVE ImproveLoop(_, _, _)

ImproveLoop(p, current_makespan, loop) ==
    CHOOSE done \in {
        IF pass.improved THEN ImproveLoop(p, current_makespan, pass) ELSE pass :
          pass \in {LET sorted == SortedByCost(p, loop.assignment_map)
                    IN TryTasks(p, current_makespan,
                                [k \in 1..Len(sorted) |-> sorted[k].task_id],
                                [loop EXCEPT !.improved = FALSE])}} : TRUE

\* LocalSearchMiddleware.optimize: the final assignments and the attempts made
optimize(p, assignments) ==
    ImproveLoop(p, calculate_makespan(p, assignments),
                [assignment_map |-> AssignmentMap(assignments),
                 improved |-> TRUE,
                 current_team |-> 0,
                 current_cost |-> 0,
                 attempts |-> <<>>])

\* the teams of the fixtures, team 2 available from 0 or from 10
LocalTeams(late) == (1 :> Team(1, 0)) @@ (2 :> Team(2, late)) @@ (3 :> Team(3, 0))

\* the cost dicts of a task: the one of the fixtures, one with a third and
\* cheapest team, and one without a choice
LocalCosts == {(1 :> 100) @@ (2 :> 50), (1 :> 100) @@ (2 :> 50) @@ (3 :> 20), (1 :> 15)}

LocalProblems ==
    {ProblemInstance(1, 3, (1 :> Task(1, 10, <<>>, <<>>, c)), LocalTeams(late)) :
        c \in LocalCosts, late \in {0, 10}}
    \cup
    {ProblemInstance(2, 3,
        (1 :> Task(1, 10, <<>>, IF dep = "both" THEN <<2>> ELSE <<>>, c1))
        @@ (2 :> Task(2, 10, IF dep = "none" THEN <<>> ELSE <<1>>, <<>>, c2)),
        LocalTeams(late)) :
        c1 \in LocalCosts, c2 \in LocalCosts, late \in {0, 10},
        dep \in {"none", "both", "predecessor"}}

\* the schedules handed to the middleware: different tasks on compatible teams
LocalSeeds(p) ==
    LET one(t) == {Assignment(t, m, b) : m \in Keys(p.tasks[t].compatible_teams),
                                         b \in {0, 10, 20}}
    IN {<<>>} \cup {<<a>> : a \in one(1)}
       \cup (IF 2 \in Keys(p.tasks)
             THEN {<<a>> : a \in one(2)} \cup {<<a, b>> : a \in one(1), b \in one(2)}
                  \cup {<<b, a>> : a \in one(1), b \in {x \in one(2) : x.start_time = 0}}
             ELSE {})

InitLocal ==
    /\ problem \in LocalProblems
    /\ pc = "solved"
    /\ prev = problem
    /\ cur = problem
    /\ applied = <<>>
    /\ ident = [prev |-> 0, cur |-> 0]
    /\ indexed = problem
    /\ inner \in LocalSeeds(problem)
    /\ schedule = NoSchedule
    /\ BudgetIdle
    /\ SearchIdle
    /\ CheckerIdle

\* LocalSearchMiddleware.map_result
LocalSearch_map_result ==
    /\ pc = "solved"
    /\ pc' = "refined"
    /\ stage' = "LocalSearchMiddleware"
    /\ seed' = inner
    /\ IF inner = <<>>
       THEN /\ inner' = inner
            /\ attempts' = <<>>
       ELSE \E done \in {optimize(indexed, inner)} :
              /\ inner' = done.assignment_map
              /\ attempts' = done.attempts
    /\ UNCHANGED <<problem, prev, cur, applied, ident, indexed, schedule, budgetVars,
                   checkVars, solver, current_solution, best_solution, scored, tabu_list,
                   iteration, tabu_tenure, scan, time_budget>>

NextLocal == LocalSearch_map_result

SpecLocal == InitLocal /\ [][NextLocal]_vars

(***************************************************************************)
(* Properties of the graph-repair middlewares.                             *)
(***************************************************************************)
\* every id in the lists of the tasks of p is a key of p.tasks
NoDanglingIds(p) ==
    \A t \in Keys(p.tasks) :
        Range(p.tasks[t].predecessors) \cup Range(p.tasks[t].successors) \subseteq Keys(p.tasks)

\* the successor edges of `tasks` between present tasks
PresentEdges(tasks) ==
    {e \in Keys(tasks) \X Keys(tasks) : e[2] \in Range(tasks[e[1]].successors)}

RECURSIVE Closure(_)
\* the transitive closure of a finite relation
Closure(R) ==
    LET step == R \cup {<<x[1][1], x[2][2]>> : x \in {y \in R \X R : y[1][2] = y[2][1]}}
    IN IF step = R THEN R ELSE Closure(step)

\* the tasks on a cycle: in a strongly connected component of size > 1, or
\* listing themselves as successor, i.e. reaching themselves by a non-empty path
OnCycle(tasks) == {t \in Keys(tasks) : <<t, t>> \in Closure(PresentEdges(tasks))}

\* C1: after CycleRemover.map_problem and then DependencyPruner.map_problem, every
\* id in a surviving task's predecessors and successors is the id of a surviving task
C1_NoDanglingAfterRepair ==
    applied = <<"CycleRemover", "DependencyPruner">> => NoDanglingIds(cur)

\* C1 witness: an instance with a cycle and a stale reference went through both
\* stages, CycleRemover removed a task, DependencyPruner changed the instance again
\* and a task survives
C1_Witness ==
    /\ applied = <<"CycleRemover", "DependencyPruner">>
    /\ Keys(prev.tasks) # Keys(problem.tasks)
    /\ ~NoDanglingIds(prev)
    /\ Keys(cur.tasks) # {}

\* every successor entry has its predecessor entry and the other way round, as
\* parse_input builds the lists
Mirrored(p) ==
    \A u, v \in Keys(p.tasks) :
        v \in Range(p.tasks[u].successors) <=> u \in Range(p.tasks[v].predecessors)

\* validate_schedule(problem, schedule).is_valid for the problem the stage was given
Valid(assignments) == validate_schedule(indexed, assignments).is_valid

best_score == best_solution.fitness

\* C4: from one pass of the while-loop to the next, best_score never gets worse
\* in the lexicographic order on (-count, makespan, cost)
C4_BestScoreNeverWorsens ==
    [][pc = "search" /\ pc' = "search" => ~LexLess(best_score, best_score')]_vars

\* C4 witness: the incumbent is better than the initial solution and the search
\* now stands on a solution that is worse than the incumbent
C4_Witness ==
    /\ pc = "search"
    /\ stage = "TabuSearchSolver"
    /\ iteration >= 2
    /\ LexLess(best_score, current_solution.fitness)
    /\ LexLess(best_score,
               Fitness(solver, _decode(solver, _generate_initial_solution(solver)).assignments))

\* number of ids of S below x: the place of x among the sorted ids, from 0
Rank(S, x) == Cardinality({y \in S : y < x})

\* the id of S with k ids of S below it
Original(S, k) == CHOOSE x \in S : Rank(S, x) = k

TeamIdsOf(p) == {p.teams[k].id : k \in Keys(p.teams)}

\* the assignments of the wrapped stage that name a task of the relabelled problem
RECURSIVE KnownAssignments(_, _)

KnownAssignments(assignments, n) ==
    IF assignments = <<>> THEN <<>>
    ELSE IF Head(assignments).task_id \in 0..(n - 1)
    THEN <<Head(assignments)>> \o KnownAssignments(Tail(assignments), n)
    ELSE KnownAssignments(Tail(assignments), n)

\* C5: ContinuousIndexer round-trips ids.  When run returns, its output lists,
\* in the order of the wrapped stage, each assignment (t', m', s) of a task of
\* the relabelled problem as (t, m, s) with t the task id that has t' task ids
\* below it, m the team id that has m' team ids below it and s unchanged; run
\* returns whenever every such assignment names a team of the relabelled
\* problem; and from_continuous(to_continuous(id)) = id for every task id and
\* team id of the problem.
C5_IndexerRoundTrip ==
    LET T == Keys(problem.tasks)
        M == TeamIdsOf(problem)
        known == KnownAssignments(inner, Cardinality(T))
    IN /\ \A t \in T : from_continuous(TaskIndexMap(problem),
                                       to_continuous(TaskIndexMap(problem), t)) = t
       /\ \A m \in M : from_continuous(TeamIndexMap(problem),
                                       to_continuous(TeamIndexMap(problem), m)) = m
       /\ pc = "done" =>
            /\ (\A k \in 1..Len(known) : known[k].team_id \in 0..(Cardinality(M) - 1))
                  => schedule.raised = ""
            /\ schedule.raised = "" =>
                 /\ Len(schedule.assignments) = Len(known)
                 /\ \A k \in 1..Len(known) :
                      schedule.assignments[k] =
                          Assignment(Original(T, known[k].task_id),
                                     Original(M, known[k].team_id),
                                     known[k].start_time)

\* run has returned two assignments of a sparse problem, one of them of a task
\* whose id was changed by more than the shift to 0
C5_Witness ==
    /\ pc = "done"
    /\ schedule.raised = ""
    /\ Len(schedule.assignments) = 2
    /\ Len(inner) = 2
    /\ Keys(problem.tasks) = {1, 3}
    /\ inner[2].task_id = 1
    /\ schedule.assignments[2].task_id = 3
    /\ schedule.assignments[2].team_id = 2
    /\ schedule.assignments[2].start_time = 10

\* C6: the problem handed to the wrapped stage is the image of the input under
\* the order-preserving bijections: task ids exactly 0..num_tasks-1, team ids
\* exactly 0..num_teams-1, durations kept, an edge between present tasks in the
\* input exactly when its image is one in the relabelled problem (and the
\* relabelled lists name relabelled tasks only), each compatible present team
\* keeps its cost under its new id.
C6_IndexedProblemIsImage ==
    pc # "index" =>
      LET T == Keys(problem.tasks)
          M == TeamIdsOf(problem)
      IN /\ Keys(indexed.tasks) = 0..(indexed.num_tasks - 1)
         /\ Keys(indexed.teams) = 0..(indexed.num_teams - 1)
         /\ indexed.num_tasks = Cardinality(T)
         /\ \A k \in Keys(problem.teams) :
              indexed.teams[Rank(M, problem.teams[k].id)] = problem.teams[k]
         /\ \A t \in T :
              LET old == problem.tasks[t]
                  new == indexed.tasks[Rank(T, t)]
              IN /\ new.id = Rank(T, t)
                 /\ new.duration = old.duration
                 /\ Range(new.predecessors) \subseteq Keys(indexed.tasks)
                 /\ Range(new.successors) \subseteq Keys(indexed.tasks)
                 /\ \A p \in T :
                      /\ p \in Range(old.predecessors)
                           <=> Rank(T, p) \in Range(new.predecessors)
                      /\ p \in Range(old.successors)
                           <=> Rank(T, p) \in Range(new.successors)
                 /\ Keys(new.compatible_teams)
                      = {Rank(M, m) : m \in Keys(old.compatible_teams) \cap M}
                 /\ \A m \in Keys(old.compatible_teams) \cap M :
                      new.compatible_teams[Rank(M, m)] = old.compatible_teams[m]

\* a sparse input whose kept tasks name the task left out: the edge 1 -> 3 is
\* relabelled 0 -> 1 and the references to task 2 are gone
C6_Witness ==
    /\ pc = "wrapped"
    /\ Keys(problem.tasks) = {1, 3}
    /\ problem.tasks[3].predecessors = <<1, 2>>
    /\ indexed.tasks[1].predecessors = <<0>>
    /\ indexed.tasks[0].successors = <<1>>
    /\ indexed.tasks[0].compatible_teams = (0 :> 5) @@ (1 :> 10)

\* the floats next above and next below a positive float
Succ(x) ==
    LET r == Inc(x.m)
    IN IF Len(r) > Precision THEN [m |-> Front(r), e |-> x.e + 1] ELSE [m |-> r, e |-> x.e]

Pred(x) ==
    IF \A i \in 2..Precision : x.m[i] = 0
    THEN [m |-> [i \in 1..Precision |-> 1], e |-> x.e - 1]
    ELSE [m |-> Dec(x.m), e |-> x.e]

\* the float nearest to T * time_factor_i / total_weight (0 when total_weight is 0)
NearestShare(i) ==
    IF SumFactors(factors) > 0
    THEN fdiv(TotalSeconds(call) * factors[i], SumFactors(factors))
    ELSE Zero

\* C7 (as claimed): with a total budget T every stage i is run with time_limit
\* exactly T * time_factor_i / total_weight, the float that quotient rounds to;
\* 0 for a stage of factor 0 and for every stage when total_weight is 0.
C7_ExactShares ==
    (pc = "done" /\ UseBudget(call)) =>
        \A i \in 1..Len(factors) : received[i] = NearestShare(i)

\* C7 (amended): every stage i is run with the rounded product of the rounded
\* quotient time_factor_i / total_weight and T, which is the float nearest to
\* T * time_factor_i / total_weight or one of its two neighbours; factors
\* [1,2,2] with T = 10 give exactly [2,4,4]; a stage of factor 0 gets 0, and
\* every stage gets 0 when total_weight is 0.
C7_SharesWithinOneUlp ==
    (pc = "done" /\ UseBudget(call)) =>
        /\ \A i \in 1..Len(factors) :
             /\ factors[i] = 0 => received[i] = Zero
             /\ SumFactors(factors) = 0 => received[i] = Zero
             /\ IF NearestShare(i) = Zero THEN received[i] = Zero
                ELSE received[i] \in {NearestShare(i), Succ(NearestShare(i)), Pred(NearestShare(i))}
        /\ (factors = <<1, 2, 2>> /\ TotalSeconds(call) = 10) =>
             received = <<fdiv(2, 1), fdiv(4, 1), fdiv(4, 1)>>

\* the budget test: factors [1,2,2], total budget 10, the stages got 2, 4 and 4
C7_Witness ==
    /\ pc = "done"
    /\ call.total_budget.set
    /\ call.total_budget.duration_seconds = 10
    /\ factors = <<1, 2, 2>>
    /\ received = <<fdiv(2, 1), fdiv(4, 1), fdiv(4, 1)>>

\* C8: with a total budget, every stage is run with its own allocated
\* sub-budget, whatever time_limit the enclosing stage passed down.
C8_StageGetsOwnBudget ==
    UseBudget(call) =>
        \A i \in 1..Len(received) :
            received[i] = BudgetShare(factors[i], SumFactors(factors), TotalSeconds(call))

\* all stages ran under a budget, and a middleware that got a nonzero budget
\* passed float("inf") down to a stage that was then run with its own nonzero,
\* different budget
C8_Witness ==
    /\ pc = "done"
    /\ UseBudget(call)
    /\ \E i \in 2..Len(received) :
         /\ passed[i] = Inf
         /\ received[i - 1] \notin {Zero, Inf}
         /\ received[i] \notin {Zero, Inf, received[i - 1]}

\* C9 (as claimed): CycleRemover.map_problem removes exactly the tasks on a cycle
\* and keeps every other task, also those that depend on a removed task
C9_RemovesExactlyCycleTasks ==
    applied = <<"CycleRemover">> =>
        Keys(cur.tasks) = Keys(prev.tasks) \ OnCycle(prev.tasks)

\* C10 (as claimed): every task kept by CycleRemover.map_problem has the
\* predecessors and successors lists it had in the input
C10_KeptListsUnchanged ==
    applied = <<"CycleRemover">> =>
        \A t \in Keys(cur.tasks) :
            /\ cur.tasks[t].predecessors = prev.tasks[t].predecessors
            /\ cur.tasks[t].successors = prev.tasks[t].successors

\* the last middleware that ran
LastApplied == IF applied = <<>> THEN "" ELSE applied[Len(applied)]

\* seq without the entries that are in ids, order kept
Without(seq, ids) == SelectSeq(seq, LAMBDA x : x \notin ids)

Teamless(p) == {t \in Keys(p.tasks) : p.tasks[t].compatible_teams = EmptyDict}

\* the tasks of p outside ids that list a task of ids as predecessor
DependentsOf(p, ids) ==
    {t \in Keys(p.tasks) \ ids : Range(p.tasks[t].predecessors) \cap ids # {}}

\* the tasks of p that are linked, through either list and any number of tasks,
\* to no task of ids and to no id that is not a task
UnrelatedTo(p, ids) ==
    LET K == Keys(p.tasks)
        Lists(t) == Range(p.tasks[t].predecessors) \cup Range(p.tasks[t].successors)
        Linked == Closure({e \in K \X K : \/ e[1] = e[2]
                                            \/ e[2] \in Lists(e[1])
                                            \/ e[1] \in Lists(e[2])})
    IN {t \in K : \A u \in K : <<t, u>> \in Linked => u \notin ids /\ Lists(u) \subseteq K}

\* C12 (as claimed): with CycleRemover, ImpossibleTaskRemover and DependencyPruner
\* applied in this order, a task with a predecessor that has no compatible team or
\* is on a cycle is still present before DependencyPruner runs and absent after
\* it, and a task unrelated to any removed task is kept with its lists intact
C12_PrunerRemovesDependents ==
    LET removed == OnCycle(problem.tasks) \cup Teamless(problem)
        dependents == DependentsOf(problem, removed)
    IN /\ applied = <<"CycleRemover", "ImpossibleTaskRemover">> =>
            dependents \subseteq Keys(cur.tasks)
       /\ applied = <<"CycleRemover", "ImpossibleTaskRemover", "DependencyPruner">> =>
            /\ dependents \cap Keys(cur.tasks) = {}
            /\ \A t \in UnrelatedTo(problem, removed) :
                 /\ t \in Keys(cur.tasks)
                 /\ cur.tasks[t].predecessors = problem.tasks[t].predecessors
                 /\ cur.tasks[t].successors = problem.tasks[t].successors

RECURSIVE LeastClosed(_, _)
\* the least set that contains R and every task of p that is a successor of one
\* of its tasks
LeastClosed(p, R) ==
    LET more == {t \in Keys(p.tasks) :
                    \E r \in R \cap Keys(p.tasks) : t \in Range(p.tasks[r].successors)}
    IN IF more \subseteq R THEN R ELSE LeastClosed(p, R \cup more)

\* the tasks of p with a predecessor id that is not a task of p
MissingPredecessor(p) ==
    {t \in Keys(p.tasks) : ~(Range(p.tasks[t].predecessors) \subseteq Keys(p.tasks))}

\* C13: DependencyPruner.map_problem removes exactly the least set R that holds
\* every task with a predecessor id absent from the input task set and every
\* present successor of a task in R; every task outside R is kept
C13_PrunerRemovesLeastSet ==
    LastApplied = "DependencyPruner" =>
        Keys(cur.tasks) = Keys(prev.tasks) \ LeastClosed(prev, MissingPredecessor(prev))

\* C13 witness: DependencyPruner got an instance in which a task with an absent
\* predecessor has a successor with none, and removed both
C13_Witness ==
    /\ LastApplied = "DependencyPruner"
    /\ \E t \in MissingPredecessor(prev), u \in Keys(prev.tasks) \ MissingPredecessor(prev) :
         /\ u \in Range(prev.tasks[t].successors)
         /\ {t, u} \cap Keys(cur.tasks) = {}

C15_RepairPipelineNeverRaises ==
    pc = "piped" =>
        /\ stage # ""
        /\ stage = "MockSolver" => schedule.raised = ""

\* the six conditions on a schedule, stated on the list of assignments
ScheduleConditions(instance, assignments) ==
    LET N == 1..Len(assignments)
        a(i) == assignments[i]
        finish(i) == a(i).start_time + instance.tasks[a(i).task_id].duration
        \* i comes before j when one team's assignments are sorted by start
        Before(i, j) == \/ a(i).start_time < a(j).start_time
                        \/ a(i).start_time = a(j).start_time /\ i < j
        Next(i, j) == /\ a(i).team_id = a(j).team_id
                      /\ Before(i, j)
                      /\ ~\E k \in N : /\ a(k).team_id = a(i).team_id
                                       /\ Before(i, k)
                                       /\ Before(k, j)
    IN /\ \A i \in N : /\ a(i).task_id \in Keys(instance.tasks)
                       /\ a(i).team_id \in Keys(instance.teams)
       /\ \A i, j \in N : i # j => a(i).task_id # a(j).task_id
       /\ \A i \in N : a(i).team_id \in Keys(instance.tasks[a(i).task_id].compatible_teams)
       /\ \A i \in N : a(i).start_time >= instance.teams[a(i).team_id].available_from
       /\ \A i, j \in N :
             a(j).task_id \in Range(instance.tasks[a(i).task_id].predecessors)
                => a(i).start_time >= finish(j)
       /\ \A i, j \in N : Next(i, j) => a(j).start_time >= finish(i)

\* test_precedence_violation: task 1 on team 1 at 0, task 2 on team 1 at 5
EarlySuccessor == <<Assignment(1, 1, 0), Assignment(2, 1, 5)>>

\* C16: validate_schedule returns is_valid = TRUE exactly when every assignment
\* names an existing task and team, no task is assigned twice, each team is
\* compatible and available at the start, every predecessor that is scheduled has
\* finished at the start, and on each team, sorted by start, each assignment
\* starts after the previous one finished; otherwise it returns FALSE with at
\* least one error, and task 2 at 5 after task 1 finishing at 10 gives a
\* precedence-violation error
C16_ValidIffConditions ==
    pc = "validated" =>
        /\ result.is_valid <=> ScheduleConditions(problem, inner)
        /\ result.is_valid <=> result.errors = <<>>
        /\ (inner = EarlySuccessor /\ problem = EvaluationInstance(TRUE)) =>
              \E k \in 1..Len(result.errors) :
                  result.errors[k].message = "Precedence violation"

\* C16 witness: the schedule of test_precedence_violation was validated and has
\* a precedence error next to the overlap error
C16_Witness ==
    /\ pc = "validated"
    /\ inner = EarlySuccessor
    /\ problem = EvaluationInstance(TRUE)
    /\ ~result.is_valid
    /\ Len(result.errors) = 2

\* C17: Pipeline.run returns exactly the schedule of its outermost stage: the
\* check never changes it, and an invalid schedule raises nothing
C17_PipelineReturnsStageSchedule ==
    pc \in {"checked", "unchecked"} =>
        /\ schedule.assignments = inner
        /\ schedule.raised = ""

\* C17 witness: a checked pipeline returned a schedule the check found invalid
C17_Witness ==
    /\ pc = "checked"
    /\ ~result.is_valid
    /\ schedule.assignments # <<>>
    /\ schedule.assignments = inner

\* task ids 0..num_tasks-1 and team ids 0..num_teams-1
ContinuousIds(p) ==
    /\ \A t \in Keys(p.tasks) : t \in 0..(p.num_tasks - 1)
    /\ \A m \in Keys(p.teams) : m \in 0..(p.num_teams - 1)
    /\ Cardinality(Keys(p.tasks)) = p.num_tasks
    /\ Cardinality(Keys(p.teams)) = p.num_teams

\* C18 (as claimed): an array-indexed stage given non-continuous task or team ids
\* raises before it builds any search state or produces any assignment, the error
\* comes out of Pipeline.run, and it is the only error that aborts a pipeline
C18_OnlyContinuityAborts ==
    pc = "piped" =>
        /\ (stage \in ArrayIndexed /\ ~ContinuousIds(indexed)) =>
              /\ schedule.raised = "ValueError"
              /\ schedule.assignments = <<>>
              /\ solver = EmptyDict
        /\ schedule.raised # "" =>
              /\ schedule.raised = "ValueError"
              /\ stage \in ArrayIndexed
              /\ ~ContinuousIds(indexed)

\* how often x is listed in seq
Count(seq, x) == Cardinality({i \in 1..Len(seq) : seq[i] = x})

\* every successor entry has its own predecessor entry and the other way round
MirroredLists(p) ==
    \A u, v \in Keys(p.tasks) :
        Count(p.tasks[u].successors, v) = Count(p.tasks[v].predecessors, u)

RECURSIVE DependOn(_, _)
\* the tasks of p that list a task of ids as predecessor, directly or through
\* other tasks
DependOn(p, ids) ==
    LET more == {t \in Keys(p.tasks) : Range(p.tasks[t].predecessors) \cap ids # {}}
    IN IF more \subseteq ids THEN ids ELSE DependOn(p, ids \cup more)

\* the tasks of the decoded list
Scheduled == {inner[i].task_id : i \in 1..Len(inner)}

RECURSIVE SumCost(_, _)
\* the sum of cost(task, team) over the first n assignments of the decoded list
SumCost(p, n) ==
    IF n = 0 THEN 0
    ELSE p.tasks[inner[n].task_id].compatible_teams[inner[n].team_id] + SumCost(p, n - 1)

\* one or two assignments of tasks to teams that can run them
NonEmptyAssignmentSets ==
    LET one == {Assignment(t, m, start) : t \in Keys(problem.tasks) \ Teamless(problem),
                                          m \in Keys(problem.teams), start \in {0, 10}}
        ok == {a \in one : a.team_id \in Keys(problem.tasks[a.task_id].compatible_teams)}
    IN {<<a>> : a \in ok} \cup {<<a, b>> : a \in ok, b \in ok}

\* C20: _evaluate returns (-number of assignments, the latest start_time +
\* duration, the sum of cost(task, team)) for a non-empty decode, and for an
\* empty decode a tuple that is lexicographically greater than the fitness of
\* every non-empty assignment set
C20_FitnessOfDecode ==
    pc = "decoded" =>
        LET f == current_solution.fitness
            finish(i) == inner[i].start_time + problem.tasks[inner[i].task_id].duration
        IN IF inner # <<>>
           THEN /\ f[1] = -Len(inner)
                /\ \E i \in 1..Len(inner) : f[2] = finish(i)
                /\ \A i \in 1..Len(inner) : f[2] >= finish(i)
                /\ f[3] = SumCost(problem, Len(inner))
           ELSE \A assignments \in NonEmptyAssignmentSets :
                    LexLess(Fitness(solver, assignments), f)

\* C20 witness: one instance in which everything is decoded, two tasks on the same
\* team one after the other
C20_Witness ==
    /\ pc = "decoded"
    /\ Len(inner) = 3
    /\ current_solution.fitness[1] = -3
    /\ current_solution.fitness[2] = 50
    /\ \E i \in 1..3 : inner[i].start_time > 0

\* C20 second case: an instance where nothing can be decoded although a task has
\* a team, scored with the worst tuple
C20_EmptyDecode ==
    /\ pc = "decoded"
    /\ inner = <<>>
    /\ NonEmptyAssignmentSets # {}
    /\ current_solution.fitness = <<0, sys_maxsize, sys_maxsize>>

(***************************************************************************)
(* C21: grade_schedule returns the number of assignments, the largest      *)
(* start_time + duration and the summed cost of each task on its team;     *)
(* the schedule {(1,1,0), (2,1,10)} of the evaluation fixture validates    *)
(* and scores (2, 30, 20).                                                 *)
(***************************************************************************)
RECURSIVE CostOf(_, _, _)

\* the summed cost of the first n assignments; a team the task is not
\* compatible with has no cost
CostOf(instance, assignments, n) ==
    IF n = 0 THEN 0
    ELSE LET a == assignments[n]
             costs == instance.tasks[a.task_id].compatible_teams
         IN CostOf(instance, assignments, n - 1)
              + (IF a.team_id \in DOMAIN costs THEN costs[a.team_id] ELSE 0)

ValidExample == <<Assignment(1, 1, 0), Assignment(2, 1, 10)>>

C21_GradeIsCountMakespanCost ==
    pc = "graded" =>
        LET known == \A i \in 1..Len(inner) : inner[i].task_id \in DOMAIN problem.tasks
            ends == {inner[i].start_time + problem.tasks[inner[i].task_id].duration :
                        i \in 1..Len(inner)}
        IN /\ graded.raised = "" <=> known
           /\ known =>
                /\ graded.value.num_tasks = Len(inner)
                /\ graded.value.makespan \in ends \cup {0}
                /\ \A e \in ends : e <= graded.value.makespan
                /\ Len(inner) > 0 => graded.value.makespan \in ends
                /\ graded.value.total_cost = CostOf(problem, inner, Len(inner))
           /\ inner = ValidExample =>
                /\ result.is_valid
                /\ graded.value = Score(2, 30, 20)

C21_Witness ==
    /\ pc = "graded"
    /\ inner = ValidExample
    /\ problem = EvaluationInstance(TRUE)
    /\ graded.value = Score(2, 30, 20)

(***************************************************************************)
(* C22: when no task of the input has an empty compatible_teams,           *)
(* ImpossibleTaskRemover.map_problem returns the problem instance it was   *)
(* given, the same object, not a rebuilt copy.                             *)
(***************************************************************************)
C22_ReturnsInputWhenNothingRemoved ==
    pc = "run" /\ LastApplied = "ImpossibleTaskRemover" /\ Teamless(prev) = {}
        => ident.cur = ident.prev

(***************************************************************************)
(* C23: with an infinite time_limit SimulatedAnnealingRefiner.map_result   *)
(* terminates: it stops after at most max_iterations iterations and        *)
(* returns a schedule instead of looping forever.                          *)
(***************************************************************************)
C23_AnnealTerminatesWithoutLimit ==
    (pc = "anneal" /\ ~use_time_limit) ~> (pc = "refined")

\* what does hold: with a finite time_limit the loop is left and a schedule
\* is returned
C23_AnnealTerminatesWithLimit ==
    (pc = "anneal" /\ use_time_limit) ~> (pc = "refined")

(***************************************************************************)
(* C24: LocalSearchMiddleware.map_result returns a schedule over the same  *)
(* set of tasks with a total cost and a makespan not above those of the    *)
(* input; a team change is kept only if the recomputed schedule covers     *)
(* every scheduled task and its makespan does not exceed the input         *)
(* makespan, otherwise the team and all start times are restored.          *)
(***************************************************************************)
TasksOf(assignments) == {assignments[i].task_id : i \in 1..Len(assignments)}

SpanOf(p, assignments) ==
    LET ends == {assignments[i].start_time + p.tasks[assignments[i].task_id].duration :
                    i \in 1..Len(assignments)} \cup {0}
    IN CHOOSE e \in ends : \A f \in ends : f <= e

C24_LocalSearchNeverWorsens ==
    pc = "refined" /\ stage = "LocalSearchMiddleware" =>
        /\ TasksOf(inner) = TasksOf(seed)
        /\ Len(inner) = Len(seed)
        /\ CostOf(indexed, inner, Len(inner)) <= CostOf(indexed, seed, Len(seed))
        /\ SpanOf(indexed, inner) <= SpanOf(indexed, seed)
        /\ \A i \in 1..Len(attempts) :
             LET at == attempts[i]
                 changed == \E k \in 1..Len(at.after) :
                               /\ at.after[k].task_id = at.task_id
                               /\ at.after[k].team_id = at.cand_team
             IN /\ at.before = IF i = 1 THEN seed ELSE attempts[i - 1].after
                /\ changed <=> /\ at.processed_count = Len(seed)
                               /\ at.new_makespan <= SpanOf(indexed, seed)
                /\ ~changed => at.after = at.before
                /\ changed => SpanOf(indexed, at.after) = at.new_makespan
        /\ inner = IF attempts = <<>> THEN seed ELSE attempts[Len(attempts)].after

\* a change was rejected and undone (the late team of test_makespan_constraint,
\* or a dependency the recomputation cannot release), a later one was kept
C24_Witness ==
    /\ pc = "refined" /\ stage = "LocalSearchMiddleware"
    /\ \E i, j \in 1..Len(attempts) :
         /\ i < j
         /\ attempts[i].after = attempts[i].before
         /\ attempts[j].after # attempts[j].before
    /\ CostOf(indexed, inner, Len(inner)) < CostOf(indexed, seed, Len(seed))
(***************************************************************************)
(* Properties of the passes of the tabu search, read off the pass made     *)
(* last: scan holds what it started with, iteration is its number.         *)
(***************************************************************************)
NoMove == Move("", 0, 0)

\* the while-loop has made a pass and goes on
PassMade ==
    /\ pc = "search"
    /\ stage \in {"TabuSearchSolver", "TabuSearchMiddleware"}
    /\ iteration >= 1

\* the pass moved to a neighbour
Accepted == PassMade /\ scan.best_move # NoMove

\* the neighbours the pass generated, and the fitness _evaluate gives to the
\* one at position x
ScanNeighbors == _get_neighbors(solver, scan.current)

ScanFitness(x) == Fitness(solver, _decode(solver, ScanNeighbors[x].solution).assignments)

\* tabu[move] > current iteration, in the table the pass started with
ScanForbidden(move) == move \in DOMAIN scan.tabu_list /\ scan.tabu_list[move] > iteration

\* the fitness of the neighbour at x is strictly better than the global best
ScanAspires(x) == LexLess(ScanFitness(x), scan.best_score)

\* the pass chose the neighbour at x
Selected(x) == Accepted /\ scan.best_move = ScanNeighbors[x].move

\* C25: the neighbour a pass selects has a move that is not forbidden at that
\* iteration (absent, or tabu[move] <= iteration), or a fitness strictly better
\* than the global best; and when the pass has looked at all neighbours, a
\* neighbour that is not forbidden is admissible: the pass selects some
\* neighbour, and none that is worse than it
C25_TabuNeedsAspiration ==
    PassMade =>
        \A x \in 1..Len(ScanNeighbors) :
            /\ Selected(x) /\ ScanForbidden(ScanNeighbors[x].move) => ScanAspires(x)
            /\ ~time_budget.expired /\ ~ScanForbidden(ScanNeighbors[x].move) =>
                  /\ Accepted
                  /\ ~LexLess(ScanFitness(x), current_solution.fitness)

\* C25 witness: a pass selected a neighbour whose move was still forbidden,
\* because it beat the global best, although another neighbour was free
C25_Witness ==
    /\ PassMade
    /\ \E x, y \in 1..Len(ScanNeighbors) :
          /\ Selected(x)
          /\ ScanForbidden(ScanNeighbors[x].move)
          /\ ScanAspires(x)
          /\ ~ScanForbidden(ScanNeighbors[y].move)


\* the same two tasks, swapped the other way round
Reverse(move) == Move("swap", move.task_id_2, move.task_id_1)

\* the pass before the last one accepted the swap of the two tasks of move
SwappedJustBefore(move) ==
    /\ move.move_type = "swap"
    /\ iteration >= 2
    /\ scan.moves[iteration - 1] \in {move, Reverse(move)}

\* C26: a pass that accepts a swap of a and b gives swap(a,b) and swap(b,a) the
\* expiry iteration + tabu_tenure, and with a tenure of 2 or more the next pass
\* selects the neighbour that swaps a and b back only if its fitness is strictly
\* better than the global best
C26_ReverseSwapForbidden ==
    PassMade =>
        /\ Accepted /\ scan.best_move.move_type = "swap" =>
              \A m \in {scan.best_move, Reverse(scan.best_move)} :
                  m \in DOMAIN tabu_list /\ tabu_list[m] = iteration + tabu_tenure
        /\ tabu_tenure >= 2 =>
              \A x \in 1..Len(ScanNeighbors) :
                  Selected(x) /\ SwappedJustBefore(ScanNeighbors[x].move) => ScanAspires(x)

\* C26 witness: the pass before the last swapped two tasks; in the last pass the
\* neighbour that swaps them back was better than every other one, and the pass
\* moved to a worse neighbour
C26_Witness ==
    /\ PassMade
    /\ Accepted
    /\ tabu_tenure >= 2
    /\ \E x \in 1..Len(ScanNeighbors) :
          /\ SwappedJustBefore(ScanNeighbors[x].move)
          /\ ScanNeighbors[x].move # scan.best_move
          /\ ScanNeighbors[x].move \in DOMAIN tabu_list
          /\ tabu_list[ScanNeighbors[x].move] = tabu_list[Reverse(ScanNeighbors[x].move)]
          /\ LexLess(ScanFitness(x), current_solution.fitness)

\* the passes before the last one that accepted move, and those that put it
\* into the table: for a swap the passes that accepted its reverse as well
AcceptedIn(move) == {j \in 1..(iteration - 1) : scan.moves[j] = move}

EnteredIn(move) ==
    {j \in 1..(iteration - 1) :
        scan.moves[j] = move \/ (move.move_type = "swap" /\ scan.moves[j] = Reverse(move))}

Latest(S) == CHOOSE j \in S : \A k \in S : k <= j

\* C27 as stated: a move accepted at iteration i is selected in the iterations
\* i + 1 .. i + tabu_tenure only if its neighbour beats the global best
C27_ForbiddenForTenurePasses ==
    PassMade =>
        \A x \in 1..Len(ScanNeighbors) :
            Selected(x) /\ AcceptedIn(ScanNeighbors[x].move) # {}
                /\ iteration - Latest(AcceptedIn(ScanNeighbors[x].move)) <= tabu_tenure
            => ScanAspires(x)

\* C27 amended: a move accepted at iteration i is selected in the iterations
\* i + 1 .. i + tabu_tenure - 1 only if its neighbour beats the global best, and
\* from iteration i + tabu_tenure on it is admissible again: when the pass has
\* looked at all neighbours and neither the move nor its reverse was accepted
\* since, the pass selects some neighbour, and none that is worse than it
C27_ForbiddenUntilExpiry ==
    PassMade =>
        \A x \in 1..Len(ScanNeighbors) :
            /\ Selected(x) /\ AcceptedIn(ScanNeighbors[x].move) # {}
                  /\ iteration - Latest(AcceptedIn(ScanNeighbors[x].move)) < tabu_tenure
               => ScanAspires(x)
            /\ ~time_budget.expired /\ EnteredIn(ScanNeighbors[x].move) # {}
                  /\ iteration - Latest(EnteredIn(ScanNeighbors[x].move)) >= tabu_tenure
               => /\ Accepted
                  /\ ~LexLess(ScanFitness(x), current_solution.fitness)

\* C27 witness: the last pass selected, without aspiration, a move that was
\* accepted exactly tabu_tenure passes earlier, and passed over a better
\* neighbour whose move was accepted tabu_tenure - 1 passes earlier
C27_Witness ==
    /\ PassMade
    /\ \E x, y \in 1..Len(ScanNeighbors) :
          /\ Selected(x)
          /\ AcceptedIn(ScanNeighbors[x].move) # {}
          /\ iteration - Latest(AcceptedIn(ScanNeighbors[x].move)) = tabu_tenure
          /\ ~ScanAspires(x)
          /\ AcceptedIn(ScanNeighbors[y].move) # {}
          /\ iteration - Latest(AcceptedIn(ScanNeighbors[y].move)) = tabu_tenure - 1
          /\ LexLess(ScanFitness(y), current_solution.fitness)

\* the last pass ended with a compaction of the table
Compacted == Accepted /\ iteration % 100 = 0

\* the table of the last pass just before its compaction: the table it started
\* with and the entries of the accepted move
BeforeCompaction ==
    LET entered == IF scan.best_move.move_type = "swap"
                   THEN {scan.best_move, Reverse(scan.best_move)}
                   ELSE {scan.best_move}
    IN [m \in DOMAIN scan.tabu_list \cup entered |->
           IF m \in entered THEN iteration + tabu_tenure ELSE scan.tabu_list[m]]

\* C28: after a compaction the table holds the entries it held before whose
\* expiry is above the current iteration, each with its expiry, so that every
\* move is tabu at a later iteration exactly if it was before; and it holds at
\* most 2 * tabu_tenure entries
C28_CompactionDropsExpired ==
    Compacted =>
        /\ DOMAIN tabu_list = {m \in DOMAIN BeforeCompaction : BeforeCompaction[m] > iteration}
        /\ \A m \in DOMAIN tabu_list : tabu_list[m] = BeforeCompaction[m]
        /\ \A m \in DOMAIN BeforeCompaction :
              \A later \in (iteration + 1)..(iteration + tabu_tenure + 1) :
                  _is_tabu(m, tabu_list, later) = _is_tabu(m, BeforeCompaction, later)
        /\ Cardinality(DOMAIN tabu_list) <= 2 * tabu_tenure

\* C28 witness: the compaction of pass 100 removed entries and left exactly
\* 2 * tabu_tenure of them
C28_Witness ==
    /\ Compacted
    /\ iteration = 100
    /\ Cardinality(DOMAIN BeforeCompaction) > 2 * tabu_tenure
    /\ Cardinality(DOMAIN tabu_list) = 2 * tabu_tenure

\* the neighbour at x was admissible in the last pass: not forbidden, or
\* strictly better than the global best
ScanAdmissible(x) == ~ScanForbidden(ScanNeighbors[x].move) \/ ScanAspires(x)

\* the neighbour at x is the one to select among those at the positions of S:
\* admissible, of a fitness no admissible one of S is below, and the first such
FirstLeast(S, x) ==
    /\ x \in S
    /\ ScanAdmissible(x)
    /\ \A y \in S : ScanAdmissible(y) =>
          /\ ~LexLess(ScanFitness(y), ScanFitness(x))
          /\ y < x => LexLess(ScanFitness(x), ScanFitness(y))

\* the search stands on the neighbour at x, with its fitness
StandsOn(x) ==
    /\ Accepted
    /\ current_solution = [ScanNeighbors[x].solution EXCEPT !.fitness = ScanFitness(x)]

\* the outcome of a pass whose for-loop looked at the neighbours at the
\* positions of S: the first of the least admissible ones, or a restart
ScannedOutcome(S) ==
    IF \E x \in S : ScanAdmissible(x)
    THEN \E x \in S : FirstLeast(S, x) /\ StandsOn(x)
    ELSE ~Accepted

Schedulable == {t \in Keys(indexed.tasks) : Keys(indexed.tasks[t].compatible_teams) # {}}

\* task_order holds every such task exactly once and nothing else, and every
\* such task is assigned one of its compatible teams
WellFormed(solution) ==
    /\ Len(solution.task_order) = Cardinality(Schedulable)
    /\ Range(solution.task_order) = Schedulable
    /\ \A t \in Schedulable :
          solution.team_assignment[t] \in Keys(indexed.tasks[t].compatible_teams)

\* C30: while TabuSearchSolver.run searches and when it has returned, the
\* current and the best solution order the tasks that have a compatible team,
\* each exactly once, and assign each of them a compatible team
C30_SolutionsWellFormed ==
    stage = "TabuSearchSolver" /\ pc \in {"search", "solved"} /\ Schedulable # {} =>
        /\ WellFormed(current_solution)
        /\ WellFormed(best_solution)

\* C30 witness: after an accepted swap a pass looked at all neighbours, found
\* none admissible and restarted from a random solution, whose order is not
\* that of the best solution
C30_Witness ==
    /\ stage = "TabuSearchSolver"
    /\ PassMade
    /\ ~Accepted
    /\ ~time_budget.expired
    /\ \E j \in 1..(iteration - 1) : scan.moves[j].move_type = "swap"
    /\ current_solution.task_order # best_solution.task_order
    /\ WellFormed(current_solution)
    /\ Cardinality(Schedulable) = 2

\* C31: a pass during which the budget expired has still evaluated every
\* neighbour it generated, and stands on the first of the least admissible
\* ones of them all (or has restarted when none was admissible)
C31_BatchCompletes ==
    PassMade /\ time_budget.expired /\ ScanNeighbors # <<>> =>
        ScannedOutcome(1..Len(ScanNeighbors))

(***************************************************************************)
(* Properties of the greedy start and of the decoders, on the instances of *)
(* SpecDecode.                                                             *)
(***************************************************************************)
\* the largest finish time among the predecessors of tid, 0 without any
LatestFinish(self, finish, tid) ==
    LET times == {finish[self.predecessors[tid][i]] :
                     i \in 1..Len(self.predecessors[tid])} \cup {0}
    IN CHOOSE x \in times : \A y \in times : y <= x

\* the team clocks and finish times after the first k entries of order were
\* committed on the teams of team, from the start of the greedy construction
RECURSIVE CommittedUpTo(_, _, _, _)

CommittedUpTo(self, order, team, k) ==
    IF k = 0
    THEN [available |-> self.team_initial_availability,
          finish |-> [t \in 0..(self.num_tasks - 1) |-> -1],
          done |-> {}]
    ELSE LET before == CommittedUpTo(self, order, team, k - 1)
             tid == order[k]
             begin == Max2(before.available[team[tid]], LatestFinish(self, before.finish, tid))
         IN [available |-> [before.available EXCEPT ![team[tid]] = begin + self.durations[tid]],
             finish |-> [before.finish EXCEPT ![tid] = begin + self.durations[tid]],
             done |-> before.done \cup {tid}]

\* the (task, team) pairs that may be committed next: the task has a team and
\* is not committed, all its predecessors are, and the team is compatible
EligiblePairs(self, st) ==
    {c \in (0..(self.num_tasks - 1)) \X (0..(self.num_teams - 1)) :
        /\ c[1] \in Range(self.tasks_with_teams) \ st.done
        /\ \A i \in 1..Len(self.predecessors[c[1]]) : self.predecessors[c[1]][i] \in st.done
        /\ c[2] \in Range(self.compatible_teams_indices[c[1]])}

\* (max(team available time, latest predecessor finish), cost) of a pair
PairKey(self, st, c) ==
    <<Max2(st.available[c[2]], LatestFinish(self, st.finish, c[1])),
      self.team_costs[c[1]][c[2]]>>

PairLess(a, b) == a[1] < b[1] \/ (a[1] = b[1] /\ a[2] < b[2])

\* entry k of the order was a greedy commit: an eligible pair, and no eligible
\* pair had a smaller key
GreedyCommit(self, order, team, k) ==
    LET st == CommittedUpTo(self, order, team, k - 1)
        c == <<order[k], team[order[k]]>>
    IN /\ c \in EligiblePairs(self, st)
       /\ \A d \in EligiblePairs(self, st) : ~PairLess(PairKey(self, st, d), PairKey(self, st, c))

\* the first K entries were greedy commits and then no pair was eligible
GreedyUpTo(self, order, team, K) ==
    /\ \A k \in 1..K : GreedyCommit(self, order, team, k)
    /\ EligiblePairs(self, CommittedUpTo(self, order, team, K)) = {}

\* C32: the task order of _generate_initial_solution is a sequence of greedy
\* commits, each of an eligible pair of least (start, cost), up to a point
\* where no pair is eligible, followed by the tasks left; it holds every task
\* that has a compatible team exactly once
C32_GreedyCommitsLeastPair ==
    pc = "generated" =>
        /\ Len(current_solution.task_order) = Len(solver.tasks_with_teams)
        /\ Range(current_solution.task_order) = Range(solver.tasks_with_teams)
        /\ \E K \in 0..Len(current_solution.task_order) :
              GreedyUpTo(solver, current_solution.task_order,
                         current_solution.team_assignment, K)

\* C32 witness: one commit was made, of the pair of least key among two
\* eligible ones, and then no pair was eligible: two tasks that wait for each
\* other were appended
C32_Witness ==
    /\ pc = "generated"
    /\ Len(current_solution.task_order) = 3
    /\ GreedyUpTo(solver, current_solution.task_order, current_solution.team_assignment, 1)
    /\ LET st == CommittedUpTo(solver, current_solution.task_order,
                               current_solution.team_assignment, 0)
           c == <<current_solution.task_order[1],
                  current_solution.team_assignment[current_solution.task_order[1]]>>
       IN \E d \in EligiblePairs(solver, st) :
             PairLess(PairKey(solver, st, c), PairKey(solver, st, d))

\* the finish time of the assignment emitted at position k of the decoded list
EmittedFinish(k) == inner[k].start_time + problem.tasks[inner[k].task_id].duration

\* A: the team's available_from when no earlier assignment uses the team of the
\* assignment at k, else the finish time of the latest earlier one on that team
TeamFreeAt(k) ==
    LET before == {j \in 1..(k - 1) : inner[j].team_id = inner[k].team_id}
    IN IF before = {} THEN problem.teams[inner[k].team_id].available_from
       ELSE EmittedFinish(CHOOSE j \in before : \A i \in before : i <= j)

\* P: the largest finish time of the predecessors of the task at k that are
\* emitted at the positions of J, 0 without any
PredsFinishedAt(k, J) ==
    LET times == {EmittedFinish(j) : j \in {i \in J : inner[i].task_id \in
                      Range(problem.tasks[inner[k].task_id].predecessors)}} \cup {0}
    IN CHOOSE x \in times : \A y \in times : y <= x

Triples(assignments) ==
    {<<assignments[i].task_id, assignments[i].team_id, assignments[i].start_time>> :
        i \in 1..Len(assignments)}

\* C34: on an instance whose lists mirror each other, the list-scan decoders of
\* HillClimbingMiddleware and SimulatedAnnealingRefiner give every task the
\* team and the start time the heap-based decode of TabuSearchSolver gives it,
\* for the same task order and team map
C34_ListScanEqualsHeap ==
    pc = "decoded" /\ MirroredLists(problem) =>
        /\ Triples(HillClimbing_decode(problem, current_solution.task_order,
                                       current_solution.team_assignment)) = Triples(inner)
        /\ Triples(SimulatedAnnealing_decode(problem, current_solution.task_order,
                                             current_solution.team_assignment)) = Triples(inner)

(***************************************************************************)
(* Properties of the order in which Pipeline.run runs its stages.          *)
(***************************************************************************)
\* the middlewares of the given class, in list order
StagesOf(kind) == SelectSeq([i \in 1..Len(kinds) |-> i], LAMBDA i : kinds[i] = kind)

\* a list read from its end
Backwards(seq) == [k \in 1..Len(seq) |-> seq[Len(seq) + 1 - k]]

\* the problem after the first k transforms of the list
Transformed(k) == SubSeq(StagesOf("MapProblem"), 1, k)

\* the schedule of the solver after the last k refinements of the list
Refined(k) ==
    <<Solved(StagesOf("MapProblem"))>> \o
        [j \in 1..k |-> [stage |-> Backwards(StagesOf("MapResult"))[j],
                         problem |-> SelectSeq(StagesOf("MapProblem"),
                                               LAMBDA i : i < Backwards(StagesOf("MapResult"))[j])]]

\* C35: when Pipeline.run has returned, the calls made were: map_problem of
\* every MapProblem in list order, each on the output of the ones before it;
\* then the solver's run, once, on the output of them all; then map_result of
\* every MapResult in reverse list order, each on the schedule the ones behind
\* it returned; and the schedule returned went through all of them
C35_StagesRunInListOrder ==
    pc = "done" /\ kinds # <<>> =>
        LET down == StagesOf("MapProblem")
            up == Backwards(StagesOf("MapResult"))
        IN /\ Len(flow.calls) = Len(down) + 1 + Len(up)
           /\ \A k \in 1..Len(down) :
                 flow.calls[k] = Called(down[k], "map_problem", Transformed(k - 1), <<>>)
           /\ flow.calls[Len(down) + 1] =
                 Called(Len(kinds) + 1, "run", Transformed(Len(down)), <<>>)
           /\ \A k \in 1..Len(up) :
                 /\ flow.calls[Len(down) + 1 + k].stage = up[k]
                 /\ flow.calls[Len(down) + 1 + k].method = "map_result"
                 /\ flow.calls[Len(down) + 1 + k].result = Refined(k - 1)
           /\ flow.result = Refined(Len(up))

\* C35 witness: a Pipeline of a MapResult and a MapProblem or the other way
\* round has returned; the solver ran on the transformed problem and its
\* schedule was refined
C35_Witness ==
    /\ pc = "done"
    /\ StagesOf("MapProblem") # <<>>
    /\ StagesOf("MapResult") # <<>>
    /\ Len(flow.calls) = Len(kinds) + 1
    /\ flow.calls[2].method = "run"
    /\ flow.calls[2].problem # OriginalProblem
    /\ Len(flow.result) = 2

(***************************************************************************)
(* Properties of the components CycleRemover._find_sccs returns.           *)
(***************************************************************************)
\* v is reachable from u along successor edges between present tasks
Reaches(tasks, u, v) == u = v \/ <<u, v>> \in Closure(PresentEdges(tasks))

\* the components _find_sccs returned for the input of the last stage
FoundSccs == _find_sccs(prev.tasks)

\* C36: every present task is in exactly one component of _find_sccs, once,
\* and the components hold nothing else; two tasks share a component exactly
\* when each is reachable from the other
C36_SccsPartitionByMutualReach ==
    LastApplied = "CycleRemover" =>
        /\ \A k \in 1..Len(FoundSccs) :
              FoundSccs[k] # <<>> /\ Range(FoundSccs[k]) \subseteq Keys(prev.tasks)
        /\ \A t \in Keys(prev.tasks) :
              /\ Cardinality({k \in 1..Len(FoundSccs) : t \in Range(FoundSccs[k])}) = 1
              /\ \A k \in 1..Len(FoundSccs) : Count(FoundSccs[k], t) <= 1
        /\ \A u, v \in Keys(prev.tasks) :
              (\E k \in 1..Len(FoundSccs) : {u, v} \subseteq Range(FoundSccs[k]))
                  <=> (Reaches(prev.tasks, u, v) /\ Reaches(prev.tasks, v, u))

\* C36 witness: two tasks that are successors of each other came out as one
\* component, and one of them also names a successor that is not a task
C36_Witness ==
    /\ LastApplied = "CycleRemover"
    /\ \E k \in 1..Len(FoundSccs) : Len(FoundSccs[k]) = 2
    /\ \E t \in Keys(prev.tasks) : ~(Range(prev.tasks[t].successors) \subseteq Keys(prev.tasks))

(***************************************************************************)
(* Properties of the loop of HillClimbingMiddleware.map_result.            *)
(***************************************************************************)
\* the score _evaluate gives to an assignment list of the problem of the stage
HillScore(assignments) == Fitness(_preprocess(indexed), assignments)

\* the climb goes on: one pass of the for-loop has ended with `continue` or
\* at its end without `break`
HillGoesOn == pc = "climb" /\ pc' = "climb"

\* C37: a pass after which the loop goes on has replaced the current state by
\* one of strictly smaller fitness, within the budget and the iteration count;
\* the current score is the score of the current order and teams, and never
\* above the score of the decoded seed; and the schedule returned is the
\* decoded current state, so its score is no worse than that of the seed
C37_HillClimbingOnlyImproves ==
    /\ [][HillGoesOn =>
            /\ LexLess(current_solution'.fitness, current_solution.fitness)
            /\ iteration' = iteration + 1
            /\ iteration < HillClimbing_iterations
            /\ ~time_budget.expired]_vars
    /\ [](pc = "climb" =>
            /\ current_solution.fitness =
                   HillClimbing_evaluate(indexed, current_solution.task_order,
                                         current_solution.team_assignment)
            /\ ~LexLess(HillScore(scored), current_solution.fitness))
    /\ [](pc = "refined" /\ stage = "HillClimbingMiddleware" /\ seed # <<>> =>
            /\ HillScore(inner) = current_solution.fitness
            /\ ~LexLess(HillScore(scored), HillScore(inner)))

\* C37 witness: the climb accepted a move and returned a schedule that is
\* strictly better than the decoded seed, after a pass that found nothing to
\* improve
C37_Witness ==
    /\ pc = "refined"
    /\ stage = "HillClimbingMiddleware"
    /\ iteration >= 1
    /\ ~time_budget.expired
    /\ LexLess(HillScore(inner), HillScore(scored))
    /\ HillImprovements(indexed, current_solution) = {}

(***************************************************************************)
(* Properties of the heap-based decode on repaired and indexed problems.   *)
(***************************************************************************)
\* the list holds one assignment for every task of the problem given to the
\* solver, and nothing else
EmitsEveryTaskOnce(assignments) ==
    /\ Len(assignments) = Cardinality(Keys(indexed.tasks))
    /\ {assignments[i].task_id : i \in 1..Len(assignments)} = Keys(indexed.tasks)

\* TabuSearchSolver.run stands on solutions of a problem that went through the
\* four middlewares
SolverSearches ==
    /\ stage = "TabuSearchSolver"
    /\ pc \in {"search", "solved"}
    /\ applied = Middlewares
    /\ solver.tasks_with_teams # <<>>

\* C38 as stated: _decode of the solution the solver stands on, and of its
\* best one, returns one assignment for every task of the problem
C38_DecodeEmitsEveryTask ==
    SolverSearches =>
        /\ EmitsEveryTaskOnce(_decode(solver, current_solution).assignments)
        /\ EmitsEveryTaskOnce(_decode(solver, best_solution).assignments)

\* C38 amended: the same when the predecessors and successors lists of the
\* problem mirror each other
C38_DecodeEmitsEveryTaskWhenMirrored ==
    SolverSearches /\ MirroredLists(indexed) =>
        /\ EmitsEveryTaskOnce(_decode(solver, current_solution).assignments)
        /\ EmitsEveryTaskOnce(_decode(solver, best_solution).assignments)

\* C38 witness: the solver stands on a solution that orders a task before its
\* predecessor, in a mirrored problem, and its decode returns both tasks, the
\* predecessor first
C38_Witness ==
    /\ SolverSearches
    /\ MirroredLists(indexed)
    /\ pc = "search"
    /\ iteration >= 1
    /\ Keys(indexed.tasks) = {0, 1}
    /\ indexed.tasks[1].predecessors = <<0>>
    /\ current_solution.task_order = <<1, 0>>
    /\ LET assignments == _decode(solver, current_solution).assignments
       IN /\ EmitsEveryTaskOnce(assignments)
          /\ assignments[1].task_id = 0

(***************************************************************************)
(* Properties of the predecessors DependencyPruner leaves to a kept task.  *)
(***************************************************************************)
\* every task DependencyPruner kept has the predecessors list of its input
KeptPredecessorsIntact ==
    \A t \in Keys(cur.tasks) : cur.tasks[t].predecessors = prev.tasks[t].predecessors

Reorderings(seq) ==
    {[i \in 1..Len(seq) |-> seq[f[i]]] :
        f \in {g \in [1..Len(seq) -> 1..Len(seq)] : Range(g) = 1..Len(seq)}}

\* C40: validate_schedule gives every reordering of the assignments of a
\* schedule the verdict it gives the schedule
C40_VerdictIgnoresOrder ==
    pc = "validated" =>
        \A reordered \in Reorderings(inner) :
            validate_schedule(problem, reordered).is_valid = result.is_valid

=============================================================================
